---- MODULE Spec2Model ----
(***************************************************************************)
(* Model of the usage dashboard (src/ui/litellm-dashboard/src/components/  *)
(* usage.tsx): the in-flight request cache (deduplicatedRequest), the      *)
(* spend stream (connectToSpendStream), the per-widget loading flags, the  *)
(* mount orchestrator (initlizeUsageData), fillMissingDates, and the SSO   *)
(* and allowed-IP handlers of the admin panel defined in the same file.    *)
(*                                                                         *)
(* The component runs on the browser's event loop: one action of the model *)
(* is one task of that loop (an event handler, a timer callback, or the    *)
(* settlement of a network promise together with every continuation that   *)
(* the settlement schedules as microtasks).                                *)
(***************************************************************************)
EXTENDS Integers, Sequences, FiniteSets, TLC

(***************************************************************************)
(* Bounds of the model.                                                    *)
(***************************************************************************)
\* deduplicatedRequest calls made in one behaviour of SpecDedup
MaxCalls == 4
\* distinct response payloads the backend may answer with (1..MaxPayload)
MaxPayload == 2
\* invocations of initlizeUsageData and of updateTagSpendData together (the
\* runs of the two effects on mount, and their re-runs)
MaxRuns == 2
\* responses the backend delivers to metric requests in one behaviour
MaxResponses == 2
\* stream errors in one behaviour
MaxErrors == 2
\* markComponentLoaded calls queued before the next render
MaxPending == 2
\* how far past the first name not yet marked (in declaration order) a
\* markComponentLoaded call may name a widget
MaxAhead == 2
\* the last day of the month fillMissingDates is called for (days 1..MaxDay)
MaxDay == 3
\* rows in the data passed to fillMissingDates
MaxRows == 2
\* handler invocations of the admin panel in one behaviour
MaxPanelOps == 2
\* the date ranges the picker offers besides the initial one
MaxRange == 1
\* date ranges picked in one behaviour
MaxPicks == 1

(***************************************************************************)
(* The in-flight request cache.                                            *)
(***************************************************************************)
\* the cache keys passed to deduplicatedRequest by the fetch functions
DedupKeys ==
  { "dashboardSummary", "adminTopKeysCall", "adminTopModelsCall",
    "teamSpendLogs", "activitySummary",
    "teamTotalRequests", "teamSuccessfulRequests", "teamFailedRequests",
    "teamTotalTokens", "teamTotalSpendMetric", "teamAverageCostPerRequest",
    "tagTotalRequests", "tagSuccessfulRequests", "tagFailedRequests",
    "tagTotalTokens", "tagTotalSpendMetric", "tagAverageCostPerRequest" }

\* the keys the callers of SpecDedup draw from
CallKeys == { "dashboardSummary", "teamSpendLogs" }

\* requestCache.current.get(key) when the map holds no entry for key
NoPromise == 0

VARIABLES
  requestCache,   \* requestCache.current: key -> id of the stored promise, or NoPromise
  promises,       \* every promise a request factory returned, by id (its index)
  calls           \* SpecDedup: the deduplicatedRequest calls made so far, in order

dedupVars == << requestCache, promises, calls >>

\* who invoked a request: the operation and its invocation number
By(op, run) == [ op |-> op, run |-> run ]

\* the promise request() returns, before the backend answers
\* (by: the operation and run whose call invoked the request)
NewPromise(key, dedup, by) ==
  [ key |-> key, dedup |-> dedup, by |-> by, state |-> "pending", value |-> 0 ]

\* the pending promises issued for key: the ground truth the cache mirrors
PendingFor(proms, key) ==
  { i \in 1..Len(proms) : proms[i].key = key /\ proms[i].state = "pending" }

\* mutant: the has(key) test is dropped, every call invokes request()
deduplicatedRequestNoCheck(cache, proms, key, by) ==
  LET id == Len(proms) + 1
  IN  [ cache    |-> [cache EXCEPT ![key] = id],
        promises |-> Append(proms, NewPromise(key, TRUE, by)),
        promise  |-> id,
        invoked  |-> TRUE ]

\* mutant: the promise is not stored (the set(key, promise) is dropped)
deduplicatedRequestNoStore(cache, proms, key, by) ==
  IF cache[key] # NoPromise
  THEN [ cache |-> cache, promises |-> proms,
         promise |-> cache[key], invoked |-> FALSE ]
  ELSE [ cache    |-> cache,
         promises |-> Append(proms, NewPromise(key, TRUE, by)),
         promise  |-> Len(proms) + 1,
         invoked  |-> TRUE ]

\* mutant: one lock for all keys, a call made while any key is pending
\* gets that key's promise
deduplicatedRequestOneLock(cache, proms, key, by) ==
  IF \E k \in DOMAIN cache : cache[k] # NoPromise
  THEN [ cache |-> cache, promises |-> proms,
         promise |-> cache[CHOOSE k \in DOMAIN cache : cache[k] # NoPromise],
         invoked |-> FALSE ]
  ELSE LET id == Len(proms) + 1
       IN  [ cache    |-> [cache EXCEPT ![key] = id],
             promises |-> Append(proms, NewPromise(key, TRUE, by)),
             promise  |-> id,
             invoked  |-> TRUE ]

\* mutant: the key includes the caller's parameters, a call shares a pending
\* promise only with the invocation that issued it
deduplicatedRequestPerCaller(cache, proms, key, by) ==
  IF cache[key] # NoPromise /\ proms[cache[key]].by = by
  THEN [ cache |-> cache, promises |-> proms,
         promise |-> cache[key], invoked |-> FALSE ]
  ELSE LET id == Len(proms) + 1
       IN  [ cache    |-> [cache EXCEPT ![key] = id],
             promises |-> Append(proms, NewPromise(key, TRUE, by)),
             promise  |-> id,
             invoked  |-> TRUE ]

\* deduplicatedRequest(key, request) on the cache and the promises: the new
\* cache, the new promises, the promise the caller awaits, and whether
\* request() was invoked
deduplicatedRequest(cache, proms, key, by) ==
  IF cache[key] # NoPromise
  THEN [ cache |-> cache, promises |-> proms,
         promise |-> cache[key], invoked |-> FALSE ]
  ELSE LET id == Len(proms) + 1
       IN  [ cache    |-> [cache EXCEPT ![key] = id],
             promises |-> Append(proms, NewPromise(key, TRUE, by)),
             promise  |-> id,
             invoked  |-> TRUE ]

\* mutant: the finally callback runs on fulfilment only
FinallyDeleteOnSuccessOnly(cache, p, outcome) ==
  IF p.dedup /\ outcome = "fulfilled" THEN [cache EXCEPT ![p.key] = NoPromise] ELSE cache

\* .finally(() => requestCache.current.delete(key)): runs whatever the outcome
FinallyDelete(cache, p, outcome) ==
  IF p.dedup THEN [cache EXCEPT ![p.key] = NoPromise] ELSE cache

\* the backend answers promise id: it fulfils with a payload or rejects
SettledPromises(proms, id, outcome, v) ==
  [proms EXCEPT ![id].state = outcome, ![id].value = v]

\* what a caller that awaits promise id observes
Outcome(id) == << promises[id].state, promises[id].value >>


(***************************************************************************)
(* The component: props, state hooks and refs.                             *)
(***************************************************************************)
\* a prop that is null (falsy)
Null == "null"

\* the date ranges of the picker are numbered; the initial dateValue is the last
\* seven days
InitialRange == 0

VARIABLES
  mounted,            \* the view is mounted (the unmount cleanup has not run)
  props,              \* accessToken, token, userRole, userID of the last render
  dateValue,          \* the dateValue state hook: the date range picked
  runs,               \* the invocations of initlizeUsageData, in order
  tagRuns,            \* the invocations of updateTagSpendData, in order
  waiters,            \* continuations awaiting a promise, in registration order
  data,               \* state hooks that hold fetched data: 0 = initial, else promise id
  totalMonthlySpend,  \* the totalMonthlySpend state hook
  componentLoading,   \* the componentLoading state hook
  proxySettings,      \* the proxySettings state hook
  errorLog,           \* what console.error has logged
  unhandled,          \* rejections no handler caught
  responses           \* responses the backend has delivered to metric requests

dashVars == << mounted, props, dateValue, runs, tagRuns, waiters, data, totalMonthlySpend,
               componentLoading, proxySettings, errorLog, unhandled, responses >>

VARIABLES
  eventSourceRef,     \* eventSourceRef.current: id of the held EventSource, 0 = null
  conns,              \* every EventSource constructed, by id (its index)
  isStreamConnected,  \* the isStreamConnected state hook
  timers              \* pending setTimeout callbacks of onerror, oldest first

streamVars == << eventSourceRef, conns, isStreamConnected, timers >>

VARIABLES
  lastMessage,        \* the event.data of the last message event handled
  pendingMarks,       \* setComponentLoading updaters queued for the next render
  marked,             \* the names markComponentLoaded was called with
  fillArgs,           \* the arguments of the last fillMissingDates call
  filledData          \* what that call returned

\* the admin panel (AdminPanel): its props, state hooks, form and storage
VARIABLES
  panelMount,              \* the number of the panel instance on screen, 0 = none
  premiumUser,             \* the premiumUser prop
  panelToken,              \* the accessToken prop of the panel
  ssoConfig,               \* the ssoConfig state hook
  isSSoConfigLoaded,       \* the isSSoConfigLoaded state hook
  allowedIPs,              \* the allowedIPs state hook
  isAllowedIPModalVisible, \* the isAllowedIPModalVisible state hook
  isAddSSOModalVisible,    \* the isAddSSOModalVisible state hook
  formFields,              \* the values of the SSO form (form.getFieldsValue())
  localStorage,            \* localStorage['litellm_sso_config']
  notices,                 \* the message.error / message.success notices shown
  apiCalls,                \* every backend call of the panel, by id (its index)
  lastChange,              \* the last answer that gave or changed the SSO config
  panelOps,                \* the running and finished handler invocations
  formTimers               \* pending setTimeout callbacks that fill the form

panelVars ==
  << panelMount, premiumUser, panelToken, ssoConfig, isSSoConfigLoaded, allowedIPs,
     isAllowedIPModalVisible, isAddSSOModalVisible, formFields, localStorage,
     notices, apiCalls, lastChange, panelOps, formTimers >>

\* the units exercised on their own: the loading tracker, fillMissingDates
\* and the admin panel
unitVars == << pendingMarks, marked, fillArgs, filledData, panelVars >>

vars == << dedupVars, dashVars, streamVars, lastMessage, unitVars >>

\* the keys of the componentLoading state, in the order of their declaration
WidgetList ==
  << "monthlySpend", "monthlyChart", "topKeys", "topModels", "globalActivity",
    "globalActivityPerModel", "teamSpend", "topTags", "topEndUsers",
    "providerSpend", "tagNames", "dailySummary", "totalRequests",
    "successfulRequests", "failedRequests", "totalTokens", "totalSpendMetric",
    "averageCostPerRequest", "teamTotalRequests", "teamSuccessfulRequests",
    "teamFailedRequests", "teamTotalTokens", "teamTotalSpendMetric",
    "teamAverageCostPerRequest", "tagTotalRequests", "tagSuccessfulRequests",
    "tagFailedRequests", "tagTotalTokens", "tagTotalSpendMetric",
    "tagAverageCostPerRequest" >>

\* the keys of the componentLoading state, all initially true
Widgets == { WidgetList[i] : i \in 1..Len(WidgetList) }

\* the state hooks the fetches write (totalMonthlySpend is a variable of its own)
StateVars ==
  { "keySpendData", "topKeys", "topModels", "topUsers", "teamSpendData",
    "topTagsData", "allTagNames", "uniqueTeamIds", "totalSpendPerTeam",
    "spendByProvider", "globalActivity", "globalActivityPerModel",
    "teamTotalRequests", "teamSuccessfulRequests", "teamFailedRequests",
    "teamTotalTokens", "teamTotalSpend", "teamAverageCostPerRequest",
    "tagTotalRequests", "tagSuccessfulRequests", "tagFailedRequests",
    "tagTotalTokens", "tagTotalSpend", "tagAverageCostPerRequest" }

\* isAdminOrAdminViewer(role)
isAdminOrAdminViewer(role) ==
  IF role = Null THEN FALSE ELSE role = "Admin" \/ role = "Admin Viewer"

\* one awaited backend call of a fetch function:
\*   name    the fetch function (and the metric, for the metric groups)
\*   key     the deduplication key, or the API function when not deduplicated
\*   dedup   whether the call goes through deduplicatedRequest
\*   sets    the state hooks written when the call succeeds
\*   spend   whether totalMonthlySpend is written when the call succeeds
\*   marks   the flags passed to markComponentLoaded, on success and in the catch
\*   catches whether a rejection is caught (and logged)
\*   widget  the componentLoading flags named after what the fetch loads
\*   admin   whether the fetch belongs to a team, tag or customer breakdown
\*   returns whether the fetch function returns a promise to its caller
Fetch(name, key, dedup, sets, spend, marks, catches, widget, admin) ==
  [ name |-> name, key |-> key, dedup |-> dedup, sets |-> sets, spend |-> spend,
    marks |-> marks, catches |-> catches, widget |-> widget, admin |-> admin,
    returns |-> TRUE ]

\* a fetch function with a block body that calls fetchAndSetData and returns
\* nothing: its caller gets undefined
Discards(f) == [f EXCEPT !.returns = FALSE]

\* fetchTeamIndividualMetrics / fetchTagIndividualMetrics: one chained request
MetricFetch(fn, key, hook) ==
  Fetch(fn, key, TRUE, {hook}, FALSE, {key}, TRUE, {key}, TRUE)

\* the fetches every role launches, in the order of allDataPromises
CoreFetches ==
  << Fetch("fetchOverallSpend", "dashboardSummary", TRUE, {"keySpendData"}, TRUE,
           {"monthlySpend", "monthlyChart"}, TRUE, {"monthlySpend", "monthlyChart"}, FALSE),
     Fetch("fetchTopKeys", "adminTopKeysCall", TRUE, {"topKeys"}, FALSE,
           {"topKeys"}, TRUE, {"topKeys"}, FALSE),
     Fetch("fetchTopModels", "adminTopModelsCall", TRUE, {"topModels"}, FALSE,
           {"topModels"}, TRUE, {"topModels"}, FALSE),
     Fetch("fetchGlobalActivity", "activitySummary", TRUE, {"globalActivity"}, FALSE,
           {"globalActivity"}, TRUE, {"globalActivity"}, FALSE),
     Fetch("fetchGlobalActivityPerModel", "adminGlobalActivityPerModel", FALSE,
           {"globalActivityPerModel"}, FALSE, {}, TRUE, {"globalActivityPerModel"}, FALSE) >>

\* the admin-only fetches, in the order of allDataPromises
AdminFetches ==
  << Fetch("fetchTeamSpend", "teamSpendLogs", TRUE,
           {"teamSpendData", "uniqueTeamIds", "totalSpendPerTeam"}, FALSE,
           {"teamSpend"}, TRUE, {"teamSpend"}, TRUE),
     MetricFetch("fetchTeamIndividualMetrics", "teamTotalRequests", "teamTotalRequests"),
     MetricFetch("fetchTeamIndividualMetrics", "teamSuccessfulRequests", "teamSuccessfulRequests"),
     MetricFetch("fetchTeamIndividualMetrics", "teamFailedRequests", "teamFailedRequests"),
     MetricFetch("fetchTeamIndividualMetrics", "teamTotalTokens", "teamTotalTokens"),
     MetricFetch("fetchTeamIndividualMetrics", "teamTotalSpendMetric", "teamTotalSpend"),
     MetricFetch("fetchTeamIndividualMetrics", "teamAverageCostPerRequest", "teamAverageCostPerRequest"),
     MetricFetch("fetchTagIndividualMetrics", "tagTotalRequests", "tagTotalRequests"),
     MetricFetch("fetchTagIndividualMetrics", "tagSuccessfulRequests", "tagSuccessfulRequests"),
     MetricFetch("fetchTagIndividualMetrics", "tagFailedRequests", "tagFailedRequests"),
     MetricFetch("fetchTagIndividualMetrics", "tagTotalTokens", "tagTotalTokens"),
     MetricFetch("fetchTagIndividualMetrics", "tagTotalSpendMetric", "tagTotalSpend"),
     MetricFetch("fetchTagIndividualMetrics", "tagAverageCostPerRequest", "tagAverageCostPerRequest"),
     Discards(Fetch("fetchTagNames", "allTagNamesCall", FALSE, {"allTagNames"}, FALSE,
                    {}, TRUE, {"tagNames"}, TRUE)),
     Discards(Fetch("fetchTopTags", "tagsSpendLogsCall", FALSE, {"topTagsData"}, FALSE,
                    {}, TRUE, {"topTags"}, TRUE)),
     Discards(Fetch("fetchTopEndUsers", "adminTopEndUsersCall", FALSE, {"topUsers"}, FALSE,
                    {}, TRUE, {"topEndUsers"}, TRUE)) >>

\* the last entry of allDataPromises
fetchProviderSpend ==
  Fetch("fetchProviderSpend", "adminspendByProvider", FALSE, {"spendByProvider"}, FALSE,
        {}, TRUE, {"providerSpend"}, FALSE)

\* the awaited tagsSpendLogsCall of updateTagSpendData: no try/catch around it
updateTagSpendFetch ==
  Fetch("updateTagSpendData", "tagsSpendLogsCall", FALSE, {"topTagsData"}, FALSE,
        {}, FALSE, {"topTags"}, TRUE)

\* the awaited adminTopEndUsersCall of updateEndUserData: no try/catch around it
updateEndUserFetch ==
  Fetch("updateEndUserData", "adminTopEndUsersCall", FALSE, {"topUsers"}, FALSE,
        {}, FALSE, {"topEndUsers"}, TRUE)

\* every awaited backend call of the fan-out, of updateTagSpendData and of
\* updateEndUserData
AllFetches ==
  { CoreFetches[i] : i \in 1..Len(CoreFetches) }
    \cup { AdminFetches[i] : i \in 1..Len(AdminFetches) }
    \cup { fetchProviderSpend, updateTagSpendFetch, updateEndUserFetch }

\* a fetch is identified by its function and its key
FetchId(f) == << f.name, f.key >>

\* the fetch with a given identity
FetchOf(fid) == CHOOSE f \in AllFetches : FetchId(f) = fid

\* allDataPromises for a role
allDataPromises(role) ==
  CoreFetches
    \o (IF isAdminOrAdminViewer(role) THEN AdminFetches ELSE << >>)
    \o << fetchProviderSpend >>

\* allDataPromises.forEach(promise => promise.catch(...)) throws a TypeError
\* at the first entry that is undefined
forEachThrows(fs) == \E i \in 1..Len(fs) : ~fs[i].returns

\* getProxyUISettings, awaited by fetchProxySettings
SettingsKey == "getProxyUISettings"

\* the payloads a request may be fulfilled with: the code reads a number only
\* from the dashboard summary (monthly_spend)
PayloadsOf(key) == IF key = "dashboardSummary" THEN 0..MaxPayload ELSE {1}

\* mutant: the new map is built from the map of the first render (a plain
\* object passed to the setter by a closure that captured the initial state)
markComponentLoadedStale(loading, component) ==
  [w \in DOMAIN loading |-> w # component]

\* mutant: the flag is flipped instead of cleared
markComponentLoadedToggle(loading, component) ==
  [loading EXCEPT ![component] = ~@]

\* markComponentLoaded(component)
markComponentLoaded(loading, component) == [loading EXCEPT ![component] = FALSE]

\* markComponentLoaded for each flag of a set
MarkAll(loading, components) ==
  [w \in Widgets |-> IF w \in components THEN markComponentLoaded(loading, w)[w]
                     ELSE loading[w]]


(***************************************************************************)
(* The spend stream.                                                       *)
(***************************************************************************)
\* the delay of the reconnect timer, in milliseconds
ReconnectDelay == 5000

\* the stream's refs and state as one value
StreamState == [ ref |-> eventSourceRef, conns |-> conns ]

\* new EventSource(url), created by a connectToSpendStream closed over accessToken
NewEventSource(accessToken) ==
  [ state |-> "connecting", token |-> accessToken, closedBy |-> "none", retry |-> "none" ]

\* mutant: the eventSourceRef.current test is dropped
connectToSpendStreamNoRefCheck(ss, accessToken) ==
  IF accessToken = Null
  THEN ss
  ELSE [ ref |-> Len(ss.conns) + 1,
         conns |-> Append(ss.conns, NewEventSource(accessToken)) ]

\* connectToSpendStream(), closed over accessToken
connectToSpendStream(ss, accessToken) ==
  IF accessToken = Null \/ ss.ref # 0
  THEN ss
  ELSE [ ref |-> Len(ss.conns) + 1,
         conns |-> Append(ss.conns, NewEventSource(accessToken)) ]

\* mutant: the reconnect timer is not set after an error
ScheduleReconnectNever(ts, c) == ts

\* setTimeout(() => { if (accessToken) connectToSpendStream() }, 5000) of onerror
ScheduleReconnect(ts, c) == Append(ts, [ conn |-> c, delay |-> ReconnectDelay ])

\* a state setter called after the unmount has no effect
SetState(old, new) == IF mounted THEN new ELSE old

(***************************************************************************)
(* The fetch fan-out.                                                      *)
(***************************************************************************)
\* a fetch function runs up to its await: it registers a continuation on the
\* promise of its backend call. st = [cache, promises, waiters, log]
Launch(st, f, by, p) ==
  IF p.accessToken = Null
  THEN st
  ELSE IF f.name = "fetchProviderSpend" /\ p.token = Null
  THEN [st EXCEPT !.log = @ \cup {f.name}]
  ELSE IF f.dedup
  THEN LET r == deduplicatedRequest(st.cache, st.promises, f.key, by)
       IN  [ cache |-> r.cache, promises |-> r.promises, log |-> st.log,
             waiters |-> Append(st.waiters,
                [ fetch |-> FetchId(f), by |-> by, promise |-> r.promise, ran |-> FALSE ]) ]
  ELSE [ cache |-> st.cache, log |-> st.log,
         promises |-> Append(st.promises, NewPromise(f.key, FALSE, by)),
         waiters |-> Append(st.waiters,
            [ fetch |-> FetchId(f), by |-> by, promise |-> Len(st.promises) + 1, ran |-> FALSE ]) ]

\* the fetch functions of fs are called in order, each on the state the one
\* before it left (a fetch that returned at its guard left it as it was)
RECURSIVE LaunchAll(_, _, _, _)
LaunchAll(st, fs, by, p) ==
  IF fs = << >> THEN st
  ELSE LET next == Launch(st, Head(fs), by, p)
       IN  IF next = st
           THEN LaunchAll(st, Tail(fs), by, p)
           ELSE LaunchAll(next, Tail(fs), by, p)

\* the flags a fetch passes to markComponentLoaded in its catch block
CatchMarks(f) == f.marks

\* mutant: an answer is dropped when a newer request of the same call has
\* already been answered
ContinueUnlessStale(ui, w, id, outcome, v) ==
  LET f == FetchOf(w.fetch)
  IN  IF \E j \in (id + 1)..Len(promises) :
            promises[j].key = promises[id].key /\ promises[j].state = "fulfilled"
      THEN ui
      ELSE IF outcome = "fulfilled"
      THEN [ ui EXCEPT
               !.data = SetState(@, [x \in StateVars |-> IF x \in f.sets THEN id ELSE @[x]]),
               !.spend = IF f.spend THEN SetState(@, v) ELSE @,
               !.loading = SetState(@, MarkAll(@, f.marks)) ]
      ELSE IF f.catches
      THEN [ ui EXCEPT
               !.log = @ \cup {f.name},
               !.loading = SetState(@, MarkAll(@, CatchMarks(f))) ]
      ELSE [ ui EXCEPT !.unhandled = @ \cup {f.name} ]

\* the continuation of waiter w once its promise id settled with outcome and
\* value v. ui = [data, spend, loading, log, unhandled]
Continue(ui, w, id, outcome, v) ==
  LET f == FetchOf(w.fetch)
  IN  IF outcome = "fulfilled"
      THEN [ ui EXCEPT
               !.data = SetState(@, [x \in StateVars |-> IF x \in f.sets THEN id ELSE @[x]]),
               !.spend = IF f.spend THEN SetState(@, v) ELSE @,
               !.loading = SetState(@, MarkAll(@, f.marks)) ]
      ELSE IF f.catches
      THEN [ ui EXCEPT
               !.log = @ \cup {f.name},
               !.loading = SetState(@, MarkAll(@, CatchMarks(f))) ]
      ELSE [ ui EXCEPT !.unhandled = @ \cup {f.name} ]

\* the continuations of ws registered on promise id run in registration order
RECURSIVE ContinueAll(_, _, _, _, _)
ContinueAll(ui, ws, id, outcome, v) ==
  IF ws = << >> THEN ui
  ELSE LET next == IF Head(ws).promise = id /\ ~Head(ws).ran
                   THEN Continue(ui, Head(ws), id, outcome, v) ELSE ui
       IN  IF next = ui
           THEN ContinueAll(ui, Tail(ws), id, outcome, v)
           ELSE ContinueAll(next, Tail(ws), id, outcome, v)

\* the initial value of the proxySettings state hook (null)
NoSettings == [ loaded |-> FALSE, DISABLE_EXPENSIVE_DB_QUERIES |-> FALSE ]

\* what the view renders: the limit notice replaces the whole dashboard
View ==
  IF proxySettings.loaded /\ proxySettings.DISABLE_EXPENSIVE_DB_QUERIES
  THEN "limitNotice" ELSE "dashboard"

\* what the settings request may come back with
SettingsResults == { "guard", "noguard", "nothing", "failed" }

\* the value of the settled settings promise
SettingsValue(result) ==
  CASE result = "guard" -> 1 [] result = "noguard" -> 0 [] OTHER -> 2

\* mutant: the guard flag is not tested, the operation always goes on
GuardStopsNever(result) == FALSE

\* mutant: the operation goes on only when settings without the flag were
\* retrieved
GuardStopsUnlessCleared(result) == result # "noguard"

\* proxy_settings?.DISABLE_EXPENSIVE_DB_QUERIES
GuardStops(result) == result = "guard"

(***************************************************************************)
(* fillMissingDates. Time is counted in hours; a Date is an instant, day d *)
(* of the month in UTC being the hours 24 * d .. 24 * d + 23. A date       *)
(* string is either "YYYY-MM-DD" (iso) or "Mon DD", both within the month. *)
(***************************************************************************)
HoursPerDay == 24

\* a time zone of the runtime: the hours local time is ahead of UTC, and the
\* day and the local hour at which the clocks go forward by one hour
\* (dstDay = 0: they never do)
Zone(base, dstDay, dstHour) == [ base |-> base, dstDay |-> dstDay, dstHour |-> dstHour ]

\* New York and Helsinki in winter, UTC, London (clocks change at 01:00) and
\* Santiago (clocks change at midnight) in the month of the change
Zones ==
  { Zone(-5, 0, 0), Zone(0, 0, 0), Zone(2, 0, 0), Zone(0, 2, 1), Zone(-4, 2, 0) }

\* the instant at which the clocks of the zone go forward
SwitchInstant(zone) == HoursPerDay * zone.dstDay + zone.dstHour - zone.base

\* the offset of local time from UTC at instant t
utcOffset(zone, t) ==
  IF zone.dstDay # 0 /\ t >= SwitchInstant(zone) THEN zone.base + 1 ELSE zone.base

\* the local time of instant t, in hours since the local midnight of day 0
LocalTime(t, zone) == t + utcOffset(zone, t)

\* the instant of a local time; a local time the change of clocks skips is
\* read with the offset in force before the change
UTC(local, zone) ==
  IF zone.dstDay # 0 /\ local - (zone.base + 1) >= SwitchInstant(zone)
  THEN local - (zone.base + 1)
  ELSE local - zone.base

\* new Date(year, monthIndex, day): local midnight of the day
LocalMidnight(day, zone) == UTC(HoursPerDay * day, zone)

\* the date strings "YYYY-MM-DD" and "Mon DD" of a day of the month
IsoStr(day) == [ iso |-> TRUE, day |-> day ]

MonDD(day) == [ iso |-> FALSE, day |-> day ]

\* date.toISOString().split('T')[0]: the UTC day of the instant
toISODate(t) == IsoStr(t \div HoursPerDay)

\* date.getDate(): the local day of the instant
getDate(t, zone) == LocalTime(t, zone) \div HoursPerDay

\* date.setDate(date.getDate() + 1): the next local day, same local time
setNextDate(t, zone) ==
  UTC(HoursPerDay * (getDate(t, zone) + 1) + (LocalTime(t, zone) % HoursPerDay), zone)

\* standardizeDate(dateStr)
standardizeDate(dateStr, zone) ==
  IF dateStr.iso THEN dateStr
  ELSE toISODate(LocalMidnight(dateStr.day, zone))

\* existingDates.has(dateStr): some item of data has that standardized date
existingHas(rows, zone, dateStr) ==
  \E i \in 1..Len(rows) : standardizeDate(rows[i].date, zone) = dateStr

\* existingDates.get(dateStr): the last such item (a later Map entry replaces
\* an earlier one), with its date standardized
existingGet(rows, zone, dateStr) ==
  LET i == CHOOSE k \in 1..Len(rows) :
             /\ standardizeDate(rows[k].date, zone) = dateStr
             /\ \A j \in (k + 1)..Len(rows) :
                  standardizeDate(rows[j].date, zone) # dateStr
  IN  [rows[i] EXCEPT !.date = dateStr]

\* the fields of an entry made for a day without rows
EmptyFields(categories) ==
  {"date", "api_requests", "total_tokens"}
    \cup { categories[i] : i \in 1..Len(categories) }

\* emptyEntry, after the categories.forEach
emptyEntry(dateStr, categories) ==
  [ f \in EmptyFields(categories) |-> IF f = "date" THEN dateStr ELSE 0 ]

\* while (currentDate <= endDate)
LoopContinues(currentDate, endDate) == currentDate <= endDate

\* the while loop from currentDate on
RECURSIVE FillFrom(_, _, _, _, _)
FillFrom(currentDate, rows, endDate, categories, zone) ==
  IF ~LoopContinues(currentDate, endDate) THEN << >>
  ELSE LET dateStr == toISODate(currentDate)
           entry == IF existingHas(rows, zone, dateStr)
                    THEN existingGet(rows, zone, dateStr)
                    ELSE emptyEntry(dateStr, categories)
       IN  << entry >> \o FillFrom(setNextDate(currentDate, zone), rows, endDate,
                                  categories, zone)

\* fillMissingDates(data, startDate, endDate, categories), in a runtime of zone
fillMissingDates(rows, startDate, endDate, categories, zone) ==
  FillFrom(startDate, rows, endDate, categories, zone)

\* no message event was handled yet
NoMessage ==
  [ parses |-> FALSE, type |-> "none", hasData |-> FALSE, hasSpend |-> FALSE,
    total_spend |-> 0 ]

\* no call of fillMissingDates yet
NoFill ==
  [ called |-> FALSE, data |-> << >>, startDay |-> 0, endDay |-> 0,
    categories |-> << >>, zone |-> Zone(0, 0, 0) ]

----
(***************************************************************************)
(* The admin panel: values, SSO configurations and the SSO form.           *)
(* A string is the sequence of its characters; undefined and the provider  *)
(* names are one-element sequences holding a word.                         *)
(***************************************************************************)
Undefined == << "undefined" >>

\* the placeholder the backend returns in place of a stored secret
Mask == << "*", "*", "*" >>

\* the name of an SSO provider, as a form or config value
Provider(name) == << name >>

\* String.prototype.trim: leading and trailing white space removed
RECURSIVE trimStart(_)
trimStart(v) == IF v # << >> /\ Head(v) = " " THEN trimStart(Tail(v)) ELSE v

RECURSIVE trimEnd(_)
trimEnd(v) ==
  IF v # << >> /\ v[Len(v)] = " " THEN trimEnd(SubSeq(v, 1, Len(v) - 1)) ELSE v

trim(v) == trimEnd(trimStart(v))

\* the truth value JavaScript gives a string or undefined
Truthy(v) == v # Undefined /\ v # << >>

\* the fields of the SSO form and of the SSO configuration
BaseKeys == { "sso_provider", "proxy_base_url", "user_email" }

\* the fields of a provider object (google, microsoft, generic)
GroupKeys(group) ==
  CASE group = "google" -> { "google_client_id", "google_client_secret" }
    [] group = "microsoft" ->
         { "microsoft_client_id", "microsoft_tenant", "microsoft_client_secret" }
    [] group = "generic" ->
         { "generic_client_id", "generic_authorization_endpoint",
           "generic_token_endpoint", "generic_userinfo_endpoint", "generic_scope",
           "generic_client_secret" }
    [] OTHER -> {}

ProviderKeys == GroupKeys("google") \cup GroupKeys("microsoft") \cup GroupKeys("generic")

FormKeys == BaseKeys \cup ProviderKeys

\* an SSO configuration as the backend returns it: the provider objects it
\* has (google, microsoft, generic) and the value of every field
Config(groups, fields) ==
  [ null |-> FALSE, groups |-> groups,
    fields |-> [ k \in FormKeys |-> IF k \in DOMAIN fields THEN fields[k] ELSE Undefined ] ]

\* null, the initial ssoConfig
NullConfig == [ null |-> TRUE, groups |-> {}, fields |-> [ k \in FormKeys |-> Undefined ] ]

\* config?.google?.google_client_id and the like: the field of a provider object
GroupField(config, group, key) ==
  IF ~config.null /\ group \in config.groups THEN config.fields[key] ELSE Undefined

\* providerToShow of buildFormDataFromConfig: the explicit provider, else the
\* first provider with a client id
providerToShow(config) ==
  IF Truthy(config.fields["sso_provider"]) THEN config.fields["sso_provider"]
  ELSE IF Truthy(GroupField(config, "google", "google_client_id")) THEN Provider("google")
  ELSE IF Truthy(GroupField(config, "microsoft", "microsoft_client_id"))
  THEN Provider("microsoft")
  ELSE IF Truthy(GroupField(config, "generic", "generic_client_id"))
  THEN Provider("generic")
  ELSE Undefined

\* the provider object buildFormDataFromConfig reads for a provider, and its
\* fields
GroupShown(provider) ==
  CASE provider = Provider("google") -> "google"
    [] provider = Provider("microsoft") -> "microsoft"
    [] provider \in { Provider("generic"), Provider("okta") } -> "generic"
    [] OTHER -> "none"

\* buildFormDataFromConfig(config): the form data, holding a key only for a
\* field of the config that has a value
buildFormDataFromConfig(config) ==
  LET shown == providerToShow(config)
      group == GroupShown(shown)
      keys == { k \in {"proxy_base_url", "user_email"} : Truthy(config.fields[k]) }
                \cup (IF Truthy(shown) THEN {"sso_provider"} ELSE {})
                \cup { k \in GroupKeys(group) : Truthy(GroupField(config, group, k)) }
  IN  [ k \in keys |-> IF k = "sso_provider" THEN shown ELSE config.fields[k] ]

\* form.resetFields() and form.setFieldsValue(formData)
EmptyForm == [ k \in FormKeys |-> Undefined ]

setFieldsValue(fields, formData) ==
  [ k \in FormKeys |-> IF k \in DOMAIN formData THEN formData[k] ELSE fields[k] ]

\* the form keys of ssoProviderConfigs[provider].envVarMap (SSOModals.tsx):
\* the fields of the provider's object; no entry for an unknown provider
envVarMapKeys(provider) == GroupKeys(GroupShown(provider))

\* mutant: the mask is not tested
IncludedNoMaskTest(value) == Truthy(value) /\ trim(value) # << >>

\* value && value.trim() !== '' && value !== '***'
Included(value) == Truthy(value) /\ trim(value) # << >> /\ value # Mask

\* the config handleSSOUpdate builds for updateSSOProviderConfig
SSOUpdateConfig(formValues) ==
  [ k \in BaseKeys \cup { f \in envVarMapKeys(formValues["sso_provider"]) :
                            Included(formValues[f]) } |->
      formValues[k] ]

\* the item of localStorage: absent (getItem gives null), the text
\* JSON.stringify(config) wrote, or a text JSON.parse rejects
NoItem == [ present |-> FALSE, parses |-> FALSE, config |-> NullConfig ]

Stored(config) == [ present |-> TRUE, parses |-> TRUE, config |-> config ]

Garbage == [ present |-> TRUE, parses |-> FALSE, config |-> NullConfig ]

\* storedConfig ? JSON.parse(storedConfig) : nothing; a text that does not
\* parse is removed (the catch around JSON.parse)
ItemAfterRead(item) == IF item.present /\ ~item.parses THEN NoItem ELSE item

\* all_ip_address_allowed
AllIPs == << "All IP Addresses Allowed" >>

\* the SSO configurations the backend holds: a Google one found by its client
\* id and an Okta one named by sso_provider, their secrets masked
GoogleConfig ==
  Config({"google"},
         ("proxy_base_url" :> << "u" >>) @@ ("google_client_id" :> << "i" >>)
           @@ ("google_client_secret" :> Mask))

OktaConfig ==
  Config({"generic"},
         ("sso_provider" :> Provider("okta")) @@ ("user_email" :> << "e" >>)
           @@ ("generic_client_id" :> << "i" >>) @@ ("generic_scope" :> << "s" >>)
           @@ ("generic_client_secret" :> Mask))

Configs == { GoogleConfig, OktaConfig }

\* what the backend answers a call of the panel
Response(ok, config, success, ips) ==
  [ ok |-> ok, config |-> config, success |-> success, ips |-> ips ]

Failure == Response(FALSE, NullConfig, FALSE, << >>)

Responses(api) ==
  CASE api = "getSSOProviderConfig" ->
         { Response(TRUE, c, TRUE, << >>) : c \in Configs \cup {NullConfig} } \cup {Failure}
    [] api = "getAllowedIPs" ->
         { Response(TRUE, NullConfig, TRUE, ips) : ips \in { << >>, << "10.0.0.1" >> } }
           \cup {Failure}
    [] OTHER ->
         { Response(TRUE, NullConfig, b, << >>) : b \in BOOLEAN } \cup {Failure}

\* a backend call of the panel, before it is answered
NoArg == [ k \in {} |-> Undefined ]

ApiCall(api, arg, op) == [ api |-> api, arg |-> arg, op |-> op, state |-> "pending" ]

\* no call has been answered with a config or a change of it
NoChange == [ api |-> "none", config |-> NullConfig ]

\* the last answer that was a read returning a config, an update that
\* succeeded or a delete that succeeded, once a call of api got resp
ChangeAfter(last, api, resp) ==
  IF resp.ok /\ ((api = "getSSOProviderConfig" /\ ~resp.config.null)
                 \/ (api \in {"updateSSOProviderConfig", "deleteSSOProviderConfig"}
                       /\ resp.success))
  THEN [ api |-> api, config |-> resp.config ]
  ELSE last

\* an invocation of a handler: the panel instance it belongs to, the await it
\* is at, and its local currentSSOConfig
PanelOp(op, mount, pc, held) == [ op |-> op, mount |-> mount, pc |-> pc, held |-> held ]


(***************************************************************************)
(* Initial states.                                                         *)
(***************************************************************************)
InitCache ==
  /\ requestCache = [k \in DedupKeys |-> NoPromise]
  /\ promises = << >>
  /\ calls = << >>

\* the props of a signed-in user with a role
AllProps(role) ==
  [ accessToken |-> "sk-1", token |-> "tok", userRole |-> role, userID |-> "u1" ]

\* the props the view is rendered with
PropsChoices ==
  { AllProps("Admin"), AllProps("Admin Viewer"), AllProps("Internal User"),
    AllProps(Null),
    [AllProps("Admin") EXCEPT !.accessToken = Null],
    [AllProps("Admin") EXCEPT !.token = Null],
    [AllProps("Internal User") EXCEPT !.userID = Null] }

\* the state hooks and refs after the first render
InitComponent(P) ==
  /\ mounted = TRUE
  /\ props \in P
  /\ dateValue = InitialRange
  /\ runs = << >>
  /\ tagRuns = << >>
  /\ waiters = << >>
  /\ data = [x \in StateVars |-> 0]
  /\ totalMonthlySpend = 0
  /\ componentLoading = [w \in Widgets |-> TRUE]
  /\ proxySettings = NoSettings
  /\ errorLog = {}
  /\ unhandled = {}
  /\ responses = 0

InitStream ==
  /\ eventSourceRef = 0
  /\ conns = << >>
  /\ isStreamConnected = FALSE
  /\ timers = << >>
  /\ lastMessage = NoMessage

\* no markComponentLoaded call is queued
InitTracker ==
  /\ pendingMarks = << >>
  /\ marked = {}

\* fillMissingDates has not been called
InitNoFill ==
  /\ fillArgs = NoFill
  /\ filledData = << >>

\* the state hooks, the form and the logs of a panel not yet rendered
InitPanelState ==
  /\ panelMount = 0
  /\ ssoConfig = NullConfig
  /\ isSSoConfigLoaded = FALSE
  /\ allowedIPs = << >>
  /\ isAllowedIPModalVisible = FALSE
  /\ isAddSSOModalVisible = FALSE
  /\ formFields = EmptyForm
  /\ notices = {}
  /\ apiCalls = << >>
  /\ lastChange = NoChange
  /\ panelOps = << >>
  /\ formTimers = << >>

\* the admin panel is not on screen
InitNoPanel ==
  /\ InitPanelState
  /\ premiumUser = FALSE
  /\ panelToken = Null
  /\ localStorage = NoItem

InitUnits == InitTracker /\ InitNoFill /\ InitNoPanel

(***************************************************************************)
(* SpecDedup: callers of deduplicatedRequest against a backend that        *)
(* settles the requests in any order.                                      *)
(***************************************************************************)
InitDedup == InitCache /\ InitComponent({AllProps("Admin")}) /\ InitStream /\ InitUnits

\* some fetch function calls deduplicatedRequest(key, request)
Call(key) ==
  /\ Len(calls) < MaxCalls
  /\ LET r == deduplicatedRequest(requestCache, promises, key, By("caller", Len(calls) + 1))
     IN  /\ requestCache' = r.cache
         /\ promises' = r.promises
         /\ calls' = Append(calls,
              [ key       |-> key,
                cachedAt  |-> requestCache[key],
                pendingAt |-> PendingFor(promises, key),
                promise   |-> r.promise,
                invoked   |-> r.invoked ])
  /\ UNCHANGED << dashVars, streamVars, lastMessage, unitVars >>

\* the request behind promise id settles, and its finally callback runs
Settle(id, outcome, v) ==
  /\ promises[id].state = "pending"
  /\ promises' = SettledPromises(promises, id, outcome, v)
  /\ requestCache' = FinallyDelete(requestCache, promises[id], outcome)
  /\ UNCHANGED << calls, dashVars, streamVars, lastMessage, unitVars >>

NextDedup ==
  \/ \E key \in CallKeys : Call(key)
  \/ \E id \in 1..Len(promises), v \in 1..MaxPayload : Settle(id, "fulfilled", v)
  \/ \E id \in 1..Len(promises) : Settle(id, "rejected", 0)

SpecDedup == InitDedup /\ [][NextDedup]_vars

(***************************************************************************)
(* The orchestrator: the effect that runs initlizeUsageData, and the       *)
(* effect that runs updateTagSpendData.                                    *)
(***************************************************************************)
\* the effect runs (on mount, and when startTime, endTime or another of its
\* dependencies changed) and initlizeUsageData runs up to its await of
\* fetchProxySettings
RunEffect ==
  /\ mounted
  /\ Len(runs) + Len(tagRuns) < MaxRuns
  /\ IF props.accessToken # Null /\ props.token # Null
          /\ props.userRole # Null /\ props.userID # Null
     THEN /\ promises' = Append(promises,
                NewPromise(SettingsKey, FALSE, By("initlizeUsageData", Len(runs) + 1)))
          /\ runs' = Append(runs, [ props |-> props, dateValue |-> dateValue,
                                    pc |-> "settings",
                                    settings |-> Len(promises) + 1, result |-> "none" ])
     ELSE /\ runs' = Append(runs, [ props |-> props, dateValue |-> dateValue,
                                    pc |-> "skipped",
                                    settings |-> 0, result |-> "none" ])
          /\ UNCHANGED promises
  /\ UNCHANGED << requestCache, calls, mounted, props, dateValue, tagRuns, waiters, data,
                  totalMonthlySpend, componentLoading, proxySettings, errorLog,
                  unhandled, responses, streamVars, lastMessage, unitVars >>

\* the settings request of run r settles and initlizeUsageData runs to its
\* end: it stores the settings, and unless the guard is set it launches the
\* fetches, attaches a catch to each entry of allDataPromises and connects the
\* stream; a TypeError thrown by the forEach ends the run before the connect
\* and rejects the promise of initlizeUsageData, which nothing handles
SettingsSettle(r, result) ==
  /\ runs[r].pc = "settings"
  /\ LET id == runs[r].settings
         rp == runs[r].props
         by == By("initlizeUsageData", r)
         got == result \in {"guard", "noguard"}
         stop == got /\ GuardStops(result)
         throws == ~stop /\ forEachThrows(allDataPromises(rp.userRole))
         st0 == [ cache |-> requestCache,
                  promises |-> SettledPromises(promises, id,
                     IF result = "failed" THEN "rejected" ELSE "fulfilled",
                     SettingsValue(result)),
                  waiters |-> waiters,
                  log |-> IF result = "failed"
                          THEN errorLog \cup {"fetchProxySettings"} ELSE errorLog ]
         st == IF stop THEN st0
               ELSE LaunchAll(st0, allDataPromises(rp.userRole), by, rp)
         ss == IF stop \/ throws THEN StreamState
               ELSE connectToSpendStream(StreamState, rp.accessToken)
     IN  /\ requestCache' = st.cache
         /\ promises' = st.promises
         /\ waiters' = st.waiters
         /\ errorLog' = st.log
         /\ proxySettings' =
              IF got
              THEN SetState(proxySettings,
                     [ loaded |-> TRUE, DISABLE_EXPENSIVE_DB_QUERIES |-> result = "guard" ])
              ELSE proxySettings
         /\ eventSourceRef' = ss.ref
         /\ conns' = ss.conns
         /\ unhandled' = IF throws THEN unhandled \cup {"initlizeUsageData"}
                         ELSE unhandled
         /\ runs' = [runs EXCEPT ![r].pc = IF stop THEN "guarded"
                                           ELSE IF throws THEN "threw" ELSE "launched",
                                 ![r].result = result]
  /\ UNCHANGED << calls, mounted, props, dateValue, tagRuns, data, totalMonthlySpend,
                  componentLoading, responses, isStreamConnected, timers,
                  lastMessage, unitVars >>

\* the effect on [dateValue, selectedTags] (or the date picker) calls
\* updateTagSpendData, which runs up to its await of fetchProxySettings
TagEffect(hasDates) ==
  /\ mounted
  /\ Len(runs) + Len(tagRuns) < MaxRuns
  /\ Len(tagRuns) = 0 => hasDates
  /\ IF ~hasDates \/ props.accessToken = Null
     THEN /\ tagRuns' = Append(tagRuns, [ props |-> props, pc |-> "skipped",
                                          settings |-> 0, result |-> "none" ])
          /\ UNCHANGED promises
     ELSE /\ promises' = Append(promises,
                NewPromise(SettingsKey, FALSE, By("updateTagSpendData", Len(tagRuns) + 1)))
          /\ tagRuns' = Append(tagRuns, [ props |-> props, pc |-> "settings",
                                          settings |-> Len(promises) + 1, result |-> "none" ])
  /\ UNCHANGED << requestCache, calls, mounted, props, dateValue, runs, waiters, data,
                  totalMonthlySpend, componentLoading, proxySettings, errorLog,
                  unhandled, responses, streamVars, lastMessage, unitVars >>

\* the settings request of updateTagSpendData's run t settles: unless the
\* guard is set the run calls tagsSpendLogsCall and awaits it
TagSettingsSettle(t, result) ==
  /\ tagRuns[t].pc = "settings"
  /\ LET id == tagRuns[t].settings
         stop == GuardStops(result)
         st0 == [ cache |-> requestCache,
                  promises |-> SettledPromises(promises, id,
                     IF result = "failed" THEN "rejected" ELSE "fulfilled",
                     SettingsValue(result)),
                  waiters |-> waiters,
                  log |-> IF result = "failed"
                          THEN errorLog \cup {"fetchProxySettings"} ELSE errorLog ]
         st == IF stop THEN st0
               ELSE Launch(st0, updateTagSpendFetch, By("updateTagSpendData", t),
                           tagRuns[t].props)
     IN  /\ requestCache' = st.cache
         /\ promises' = st.promises
         /\ waiters' = st.waiters
         /\ errorLog' = st.log
         /\ tagRuns' = [tagRuns EXCEPT ![t].pc = IF stop THEN "guarded" ELSE "fetching",
                                       ![t].result = result]
  /\ UNCHANGED << calls, mounted, props, dateValue, runs, data, totalMonthlySpend,
                  componentLoading, proxySettings, unhandled, responses, streamVars,
                  lastMessage, unitVars >>

\* the requests updateEndUserData has issued
EndUserCalls == { i \in 1..Len(promises) : promises[i].by.op = "updateEndUserData" }

\* the date picker or the key selector of the customers tab calls
\* updateEndUserData with a date range (without a range or an access token
\* the call returns at once): it calls adminTopEndUsersCall and awaits it
EndUserUpdate ==
  /\ mounted
  /\ Len(runs) + Len(tagRuns) + Cardinality(EndUserCalls) < MaxRuns
  /\ props.accessToken # Null
  /\ LET st == Launch([ cache |-> requestCache, promises |-> promises,
                        waiters |-> waiters, log |-> errorLog ],
                      updateEndUserFetch,
                      By("updateEndUserData", Cardinality(EndUserCalls) + 1), props)
     IN  /\ promises' = st.promises
         /\ waiters' = st.waiters
  /\ UNCHANGED << requestCache, calls, mounted, props, dateValue, runs, tagRuns, data,
                  totalMonthlySpend, componentLoading, proxySettings, errorLog,
                  unhandled, responses, streamVars, lastMessage, unitVars >>

\* the backend answers the metric request behind promise id: the finally
\* callback of the cache runs, then every continuation awaiting the promise
Answer(id, outcome, v) ==
  /\ promises[id].state = "pending"
  /\ promises[id].key # SettingsKey
  /\ LET ui == ContinueAll(
                 [ data |-> data, spend |-> totalMonthlySpend,
                   loading |-> componentLoading, log |-> errorLog,
                   unhandled |-> unhandled ],
                 waiters, id, outcome, v)
     IN  /\ data' = ui.data
         /\ totalMonthlySpend' = ui.spend
         /\ componentLoading' = ui.loading
         /\ errorLog' = ui.log
         /\ unhandled' = ui.unhandled
  /\ promises' = SettledPromises(promises, id, outcome, v)
  /\ requestCache' = FinallyDelete(requestCache, promises[id], outcome)
  /\ waiters' = [ i \in 1..Len(waiters) |->
                    IF waiters[i].promise = id
                    THEN [waiters[i] EXCEPT !.ran = TRUE] ELSE waiters[i] ]
  /\ responses' = responses + 1
  /\ UNCHANGED << calls, mounted, props, dateValue, runs, tagRuns, proxySettings, streamVars,
                  lastMessage, unitVars >>

\* an answer of the backend, in a behaviour that counts them
Respond(id, outcome, v) == responses < MaxResponses /\ Answer(id, outcome, v)

\* SpecDash: one mount of the view, its fan-out and the backend's answers
InitDash == InitCache /\ InitComponent(PropsChoices) /\ InitStream /\ InitUnits

\* the effect's run on mount
MountEffect == runs = << >> /\ RunEffect

NextDash ==
  \/ MountEffect
  \/ \E r \in 1..Len(runs), result \in SettingsResults : SettingsSettle(r, result)
  \/ \E id \in 1..Len(promises) :
       \E v \in PayloadsOf(promises[id].key) : Respond(id, "fulfilled", v)
  \/ \E id \in 1..Len(promises) : Respond(id, "rejected", 0)

SpecDash == InitDash /\ [][NextDash]_vars

\* SpecLaunch: the two effects and their re-runs, up to the launch of the fetches
NextLaunch ==
  \/ RunEffect
  \/ \E r \in 1..Len(runs), result \in SettingsResults : SettingsSettle(r, result)
  \/ \E hasDates \in BOOLEAN : TagEffect(hasDates)
  \/ \E t \in 1..Len(tagRuns), result \in SettingsResults : TagSettingsSettle(t, result)

SpecLaunch == InitDash /\ [][NextLaunch]_vars

(***************************************************************************)
(* The spend stream's events, the reconnect timer and the unmount.         *)
(***************************************************************************)
\* eventSource.onopen of EventSource c
OnOpen(c) ==
  /\ conns[c].state = "connecting"
  /\ conns' = [conns EXCEPT ![c].state = "open"]
  /\ isStreamConnected' = SetState(isStreamConnected, TRUE)
  /\ UNCHANGED << eventSourceRef, timers, dedupVars, dashVars,
                  lastMessage, unitVars >>

\* eventSource.onerror of EventSource c (a closed EventSource fires no event)
OnError(c) ==
  /\ conns[c].state \in {"connecting", "open"}
  /\ Cardinality({ i \in 1..Len(conns) : conns[i].closedBy = "error" }) < MaxErrors
  /\ isStreamConnected' = SetState(isStreamConnected, FALSE)
  /\ conns' = [conns EXCEPT ![c].state = "closed", ![c].closedBy = "error"]
  /\ eventSourceRef' = 0
  /\ timers' = ScheduleReconnect(timers, c)
  /\ UNCHANGED << dedupVars, dashVars, lastMessage, unitVars >>

\* the oldest reconnect timer fires (the timers have one delay, so they fire
\* in the order they were set): the callback calls the connectToSpendStream
\* it closed over, if its accessToken is set
TimerFire ==
  /\ timers # << >>
  /\ LET t == Head(timers)
         tok == conns[t.conn].token
         ss == IF tok # Null THEN connectToSpendStream(StreamState, tok) ELSE StreamState
     IN  /\ eventSourceRef' = ss.ref
         /\ conns' = [ss.conns EXCEPT ![t.conn].retry =
                        IF Len(ss.conns) > Len(conns) THEN "reconnected" ELSE "noop"]
  /\ timers' = Tail(timers)
  /\ UNCHANGED << isStreamConnected, dedupVars, dashVars,
                  lastMessage, unitVars >>

\* the cleanup of the unmount effect
Unmount ==
  /\ mounted
  /\ mounted' = FALSE
  /\ IF eventSourceRef # 0
     THEN /\ conns' = [conns EXCEPT ![eventSourceRef].state = "closed",
                                    ![eventSourceRef].closedBy = "unmount"]
          /\ eventSourceRef' = 0
     ELSE UNCHANGED << conns, eventSourceRef >>
  /\ UNCHANGED << isStreamConnected, timers, dedupVars, props, dateValue, runs, tagRuns,
                  waiters, data, totalMonthlySpend, componentLoading,
                  proxySettings, errorLog, unhandled, responses,
                  lastMessage, unitVars >>

\* the event.data strings the server may send, by what JSON.parse makes of
\* them: text that does not parse, or an envelope with a type, with or
\* without a data object, with or without a number in data.total_spend
Envelope(type, hasData, hasSpend, total_spend) ==
  [ parses |-> TRUE, type |-> type, hasData |-> hasData, hasSpend |-> hasSpend,
    total_spend |-> total_spend ]

Unparsable ==
  [ parses |-> FALSE, type |-> "unparsable", hasData |-> FALSE, hasSpend |-> FALSE,
    total_spend |-> 0 ]

Messages ==
  {Unparsable}
    \cup { Envelope(t, FALSE, FALSE, 0) : t \in {"update", "other"} }
    \cup { Envelope(t, TRUE, FALSE, 0) : t \in {"update", "other"} }
    \cup { Envelope(t, TRUE, TRUE, n) : t \in {"update", "other"}, n \in 0..MaxPayload }

\* data.data.total_spend || prev: undefined and 0 are falsy
SpendOrPrev(msg, prev) ==
  IF msg.hasSpend /\ msg.total_spend # 0 THEN msg.total_spend ELSE prev

\* eventSource.onmessage of EventSource c, with event.data = msg
OnMessage(c, msg) ==
  /\ conns[c].state = "open"
  /\ lastMessage' = msg
  /\ IF ~msg.parses
     THEN /\ errorLog' = errorLog \cup {"onmessage"}
          /\ UNCHANGED totalMonthlySpend
     ELSE /\ totalMonthlySpend' =
               IF msg.type = "update" /\ msg.hasData
               THEN SetState(totalMonthlySpend, SpendOrPrev(msg, totalMonthlySpend))
               ELSE totalMonthlySpend
          /\ UNCHANGED errorLog
  /\ UNCHANGED << dedupVars, mounted, props, dateValue, runs, tagRuns, waiters, data,
                  componentLoading, proxySettings, unhandled, responses,
                  streamVars, unitVars >>

\* SpecStream: the effect's runs, the stream's events, the timers, the unmount
NextStream ==
  \/ RunEffect
  \/ \E r \in 1..Len(runs), result \in SettingsResults : SettingsSettle(r, result)
  \/ \E c \in 1..Len(conns) : OnOpen(c)
  \/ \E c \in 1..Len(conns) : OnError(c)
  \/ TimerFire
  \/ Unmount

\* the stream does not depend on the role: one signed-in user, and one
\* render without an access token
StreamProps ==
  { AllProps("Internal User"), [AllProps("Internal User") EXCEPT !.accessToken = Null] }

InitStreamSpec == InitCache /\ InitComponent(StreamProps) /\ InitStream /\ InitUnits

SpecStream == InitStreamSpec /\ [][NextStream]_vars

\* the browser runs the callback of a timer whose delay has passed
SpecStreamFair == SpecStream /\ WF_vars(TimerFire)

(***************************************************************************)
(* SpecMessage: one mount, the stream's events and the messages the server *)
(* sends on an open connection.                                            *)
(***************************************************************************)
NextMessage ==
  \/ MountEffect
  \/ \E r \in 1..Len(runs), result \in SettingsResults : SettingsSettle(r, result)
  \/ \E c \in 1..Len(conns) : OnOpen(c)
  \/ \E c \in 1..Len(conns), msg \in Messages : OnMessage(c, msg)
  \/ \E c \in 1..Len(conns) : OnError(c)
  \/ TimerFire

SpecMessage == InitStreamSpec /\ [][NextMessage]_vars

(***************************************************************************)
(* SpecSettle: one mount of the view by a signed-in user who is not an     *)
(* administrator, and a backend that answers every request, in any order.  *)
(***************************************************************************)
SettleProps == { AllProps("Internal User") }

InitSettle == InitCache /\ InitComponent(SettleProps) /\ InitStream /\ InitUnits

NextSettle ==
  \/ MountEffect
  \/ \E r \in 1..Len(runs), result \in SettingsResults : SettingsSettle(r, result)
  \/ \E id \in 1..Len(promises) :
       \E v \in PayloadsOf(promises[id].key) : Answer(id, "fulfilled", v)
  \/ \E id \in 1..Len(promises) : Answer(id, "rejected", 0)

SpecSettle == InitSettle /\ [][NextSettle]_vars

(***************************************************************************)
(* SpecReload: the effect runs on mount and again when one of its          *)
(* dependencies changed, while answers to earlier requests still arrive.   *)
(***************************************************************************)
ReloadProps == { AllProps("Internal User") }

InitReload == InitCache /\ InitComponent(ReloadProps) /\ InitStream /\ InitUnits

\* the effect runs again after the mount run: startTime, endTime or another
\* dependency changed
ReloadEffect == Len(runs) = 1 /\ RunEffect

NextReload ==
  \/ MountEffect
  \/ ReloadEffect
  \/ \E r \in 1..Len(runs), result \in SettingsResults : SettingsSettle(r, result)
  \/ \E id \in 1..Len(promises) :
       \E v \in PayloadsOf(promises[id].key) : Respond(id, "fulfilled", v)
  \/ \E id \in 1..Len(promises) : Respond(id, "rejected", 0)

SpecReload == InitReload /\ [][NextReload]_vars

(***************************************************************************)
(* SpecMark: the loading tracker on its own. markComponentLoaded passes an *)
(* updater to setComponentLoading; the updaters queued since the last      *)
(* render are applied in order at the next one.                            *)
(***************************************************************************)
\* the updaters of ms applied in order to the map
RECURSIVE ApplyMarks(_, _)
ApplyMarks(loading, ms) ==
  IF ms = << >> THEN loading
  ELSE ApplyMarks(markComponentLoaded(loading, Head(ms)), Tail(ms))

\* the position of the first name not yet marked (the last one when all are)
FirstUnmarked ==
  IF marked = Widgets THEN Len(WidgetList)
  ELSE CHOOSE i \in 1..Len(WidgetList) :
         /\ WidgetList[i] \notin marked
         /\ \A k \in 1..(i - 1) : WidgetList[k] \in marked

\* the names the next markComponentLoaded call may carry
MarkWindow ==
  { WidgetList[i] : i \in { k \in 1..Len(WidgetList) :
                              k >= FirstUnmarked /\ k <= FirstUnmarked + MaxAhead } }

\* markComponentLoaded(w) is called: its updater is queued
Mark(w) ==
  /\ Len(pendingMarks) < MaxPending
  /\ pendingMarks' = Append(pendingMarks, w)
  /\ marked' = marked \cup {w}
  /\ UNCHANGED << dedupVars, dashVars, streamVars, lastMessage, fillArgs, filledData,
                  panelVars >>

\* the next render: the queued updaters run, each on the result of the one before
RenderMarks ==
  /\ pendingMarks # << >>
  /\ componentLoading' = ApplyMarks(componentLoading, pendingMarks)
  /\ pendingMarks' = << >>
  /\ UNCHANGED << dedupVars, mounted, props, dateValue, runs, tagRuns, waiters, data,
                  totalMonthlySpend, proxySettings, errorLog, unhandled, responses,
                  streamVars, lastMessage, marked, fillArgs, filledData,
                  panelVars >>

InitMark == InitCache /\ InitComponent({AllProps("Admin")}) /\ InitStream /\ InitUnits

NextMark ==
  \/ \E w \in MarkWindow : Mark(w)
  \/ RenderMarks

SpecMark == InitMark /\ [][NextMark]_vars

(***************************************************************************)
(* SpecFill: fillMissingDates on its own, called as fetchGlobalActivity    *)
(* calls it: with the local midnights of two days of the month, start      *)
(* before or at end, and with rows of at most one row a day.               *)
(***************************************************************************)
\* the date strings a row may carry: a day of the month, the day before it
\* or the day after it, in either form
DateStrs == { IsoStr(d) : d \in 0..(MaxDay + 1) } \cup { MonDD(d) : d \in 0..(MaxDay + 1) }

\* row i of the data carries api_requests = i and total_tokens = 10 * i
Row(dateStr, i) ==
  [ f \in {"date", "api_requests", "total_tokens"} |->
      CASE f = "date" -> dateStr [] f = "api_requests" -> i [] OTHER -> 10 * i ]

\* the data: up to MaxRows rows, in any order, no two for the same day
DataChoices ==
  UNION { { [ i \in 1..n |-> Row(ds[i], i) ] :
              ds \in { q \in [1..n -> DateStrs] :
                         \A i, j \in 1..n : i # j => q[i].day # q[j].day } } :
          n \in 0..MaxRows }

CategoryChoices == { << "api_requests", "total_tokens" >>, << "gpt-4" >> }

FillInputs ==
  { [ called |-> TRUE, data |-> d, startDay |-> a, endDay |-> b,
      categories |-> c, zone |-> z ] :
      d \in DataChoices, a \in 1..MaxDay, b \in 1..MaxDay,
      c \in CategoryChoices, z \in Zones }

\* one call of fillMissingDates
CallFill(args) ==
  /\ ~fillArgs.called
  /\ args.startDay <= args.endDay
  /\ fillArgs' = args
  /\ filledData' = fillMissingDates(args.data,
                                    LocalMidnight(args.startDay, args.zone),
                                    LocalMidnight(args.endDay, args.zone),
                                    args.categories, args.zone)
  /\ UNCHANGED << dedupVars, dashVars, streamVars, lastMessage, pendingMarks, marked,
                  panelVars >>

InitFill == InitCache /\ InitComponent({AllProps("Admin")}) /\ InitStream /\ InitUnits

NextFill == \E args \in FillInputs : CallFill(args)

SpecFill == InitFill /\ [][NextFill]_vars

(***************************************************************************)
(* SpecUpdate: the tag-spend and end-user updates the page triggers for a  *)
(* user who is not an admin, and the backend's answers.                    *)
(***************************************************************************)
InitUpdate ==
  InitCache /\ InitComponent({ AllProps("Internal User") }) /\ InitStream /\ InitUnits

\* the settings request succeeds, with the guard flag set or not
UpdateSettings == { "guard", "noguard" }

NextUpdate ==
  \/ \E hasDates \in BOOLEAN : TagEffect(hasDates)
  \/ \E t \in 1..Len(tagRuns), result \in UpdateSettings : TagSettingsSettle(t, result)
  \/ EndUserUpdate
  \/ \E id \in 1..Len(promises) :
       \E v \in PayloadsOf(promises[id].key) : Respond(id, "fulfilled", v)
  \/ \E id \in 1..Len(promises) : Respond(id, "rejected", 0)

SpecUpdate == InitUpdate /\ [][NextUpdate]_vars

(***************************************************************************)
(* SpecRange: an admin picks a date range while the page is loading and    *)
(* the effect runs again; the backend answers the requests whose call      *)
(* takes the date range.                                                   *)
(***************************************************************************)
\* the fetch functions that pass dateValue.from and dateValue.to to their
\* backend call
ReadsDateValue(f) ==
  f.name \in { "fetchTeamSpend", "fetchTeamIndividualMetrics",
               "fetchTagIndividualMetrics", "fetchTopTags" }

\* onValueChange of the date picker of the customers tab, called with a range
\* that has both ends: setDateValue(value), then updateEndUserData(value.from,
\* value.to, null) runs up to its await
PickDates(value) ==
  /\ mounted
  /\ Cardinality(EndUserCalls) < MaxPicks
  /\ dateValue' = SetState(dateValue, value)
  /\ LET st == Launch([ cache |-> requestCache, promises |-> promises,
                        waiters |-> waiters, log |-> errorLog ],
                      updateEndUserFetch,
                      By("updateEndUserData", Cardinality(EndUserCalls) + 1), props)
     IN  /\ promises' = st.promises
         /\ waiters' = st.waiters
  /\ UNCHANGED << requestCache, calls, mounted, props, runs, tagRuns, data,
                  totalMonthlySpend, componentLoading, proxySettings, errorLog,
                  unhandled, responses, streamVars, lastMessage, unitVars >>

\* the requests the backend answers in SpecRange: the team spend logs and the
\* first request of the team metrics and of the tag metrics, made by a fetch
\* that reads dateValue
DateRequest(id) ==
  /\ promises[id].key \in { "teamSpendLogs", "teamTotalRequests", "tagTotalRequests" }
  /\ \E i \in 1..Len(waiters) :
       waiters[i].promise = id /\ ReadsDateValue(FetchOf(waiters[i].fetch))

InitRange ==
  InitCache /\ InitComponent({ AllProps("Admin") }) /\ InitStream /\ InitUnits

\* the effect runs once more after the mount
Rerun == Len(runs) = 1 /\ RunEffect

NextRange ==
  \/ MountEffect
  \/ Rerun
  \/ \E value \in InitialRange..MaxRange : PickDates(value)
  \/ \E r \in 1..Len(runs) : SettingsSettle(r, "noguard")
  \/ \E id \in 1..Len(promises) :
       DateRequest(id) /\ Respond(id, "fulfilled", 1)

SpecRange == InitRange /\ [][NextRange]_vars

(***************************************************************************)
(* The admin panel: the effect that fetches the SSO configuration, the     *)
(* handlers of the allowed-IP and SSO buttons, and the backend's answers.  *)
(***************************************************************************)
\* the dashboard and the other units are not involved
OnlyPanel ==
  UNCHANGED << dedupVars, dashVars, streamVars, lastMessage, pendingMarks, marked,
               fillArgs, filledData >>

\* the handler invocations so far (every mount added one fetchSSOConfig)
HandlerCalls == Len(panelOps) - panelMount

\* mutant: the premium gate lets everyone through
NotPremiumNever(premium) == FALSE

\* premiumUser !== true
NotPremium(premium) == premium # TRUE

\* a state setter of an instance that is no longer on screen has no effect
SetPanelState(o, old, new) == IF o.mount = panelMount THEN new ELSE old

\* the handler invocation that awaits call id
OpOf(id) == panelOps[apiCalls[id].op]

\* call id is answered with resp
Answered(calls0, id, resp) ==
  [calls0 EXCEPT ![id].state = IF resp.ok THEN "ok" ELSE "failed"]

\* call id is pending, was made by handler op at its await pc, and resp is
\* one of the answers its API gives
Awaits(id, op, pc, resp) ==
  /\ apiCalls[id].state = "pending"
  /\ OpOf(id).op = op
  /\ OpOf(id).pc = pc
  /\ resp \in Responses(apiCalls[id].api)

\* mutant: the storage is never read back
ParsedItemNever(item) == NullConfig

\* the config the storage holds, null when it holds none that parses
ParsedItem(item) == IF item.present /\ item.parses THEN item.config ELSE NullConfig

\* the panel is mounted (again): its state hooks and its form start afresh
\* and the effect on [accessToken] runs fetchSSOConfig up to its await; with
\* no access token it restores the config from the storage at once
PanelMount ==
  /\ panelMount' = panelMount + 1
  /\ allowedIPs' = << >>
  /\ isAllowedIPModalVisible' = FALSE
  /\ isAddSSOModalVisible' = FALSE
  /\ formFields' = EmptyForm
  /\ IF panelToken # Null
     THEN /\ apiCalls' = Append(apiCalls,
                 ApiCall("getSSOProviderConfig", NoArg, Len(panelOps) + 1))
          /\ panelOps' = Append(panelOps,
                 PanelOp("fetchSSOConfig", panelMount + 1, "read", NullConfig))
          /\ ssoConfig' = NullConfig
          /\ isSSoConfigLoaded' = FALSE
          /\ UNCHANGED localStorage
     ELSE /\ panelOps' = Append(panelOps,
                 PanelOp("fetchSSOConfig", panelMount + 1, "done", NullConfig))
          /\ ssoConfig' = ParsedItem(localStorage)
          /\ localStorage' = ItemAfterRead(localStorage)
          /\ isSSoConfigLoaded' = TRUE
          /\ UNCHANGED apiCalls
  /\ UNCHANGED << premiumUser, panelToken, notices, lastChange, formTimers >>
  /\ OnlyPanel

\* getSSOProviderConfig of fetchSSOConfig is answered: a config is stored in
\* the state and in the storage; without a config the state is set to null;
\* on failure the config is restored from the storage
FetchSSOConfigSettle(id, resp) ==
  /\ Awaits(id, "fetchSSOConfig", "read", resp)
  /\ LET o == OpOf(id)
         got == resp.ok /\ ~resp.config.null
     IN  /\ ssoConfig' = SetPanelState(o, ssoConfig,
                IF got THEN resp.config
                ELSE IF resp.ok THEN NullConfig
                ELSE IF localStorage.present /\ ~localStorage.parses THEN ssoConfig
                ELSE ParsedItem(localStorage))
         /\ localStorage' = IF got THEN Stored(resp.config) ELSE ItemAfterRead(localStorage)
         /\ isSSoConfigLoaded' = SetPanelState(o, isSSoConfigLoaded, TRUE)
  /\ apiCalls' = Answered(apiCalls, id, resp)
  /\ lastChange' = ChangeAfter(lastChange, apiCalls[id].api, resp)
  /\ panelOps' = [panelOps EXCEPT ![apiCalls[id].op].pc = "done"]
  /\ UNCHANGED << panelMount, premiumUser, panelToken, allowedIPs,
                  isAllowedIPModalVisible, isAddSSOModalVisible, formFields, notices,
                  formTimers >>
  /\ OnlyPanel

\* handleShowAllowedIPs: a user who is not premium is told so and nothing
\* else happens; otherwise the list is fetched (or, with no token, set to the
\* default) and the modal is shown
ShowAllowedIPs ==
  /\ panelMount > 0
  /\ IF NotPremium(premiumUser)
     THEN /\ notices' = notices \cup {"premium only: allowed IPs"}
          /\ UNCHANGED << allowedIPs, isAllowedIPModalVisible, apiCalls, panelOps >>
     ELSE /\ HandlerCalls < MaxPanelOps
          /\ UNCHANGED notices
          /\ IF panelToken # Null
             THEN /\ apiCalls' = Append(apiCalls,
                         ApiCall("getAllowedIPs", NoArg, Len(panelOps) + 1))
                  /\ panelOps' = Append(panelOps,
                         PanelOp("handleShowAllowedIPs", panelMount, "ips", NullConfig))
                  /\ UNCHANGED << allowedIPs, isAllowedIPModalVisible >>
             ELSE /\ panelOps' = Append(panelOps,
                         PanelOp("handleShowAllowedIPs", panelMount, "done", NullConfig))
                  /\ allowedIPs' = AllIPs
                  /\ isAllowedIPModalVisible' = TRUE
                  /\ UNCHANGED apiCalls
  /\ UNCHANGED << panelMount, premiumUser, panelToken, ssoConfig, isSSoConfigLoaded,
                  isAddSSOModalVisible, formFields, localStorage, lastChange, formTimers >>
  /\ OnlyPanel

\* getAllowedIPs of handleShowAllowedIPs is answered; the finally block shows
\* the modal
AllowedIPsSettle(id, resp) ==
  /\ Awaits(id, "handleShowAllowedIPs", "ips", resp)
  /\ LET o == OpOf(id)
     IN  /\ allowedIPs' = SetPanelState(o, allowedIPs,
                IF resp.ok /\ resp.ips # << >> THEN resp.ips ELSE AllIPs)
         /\ isAllowedIPModalVisible' = SetPanelState(o, isAllowedIPModalVisible, TRUE)
  /\ notices' = IF resp.ok THEN notices ELSE notices \cup {"failed: allowed IPs"}
  /\ apiCalls' = Answered(apiCalls, id, resp)
  /\ lastChange' = ChangeAfter(lastChange, apiCalls[id].api, resp)
  /\ panelOps' = [panelOps EXCEPT ![apiCalls[id].op].pc = "done"]
  /\ UNCHANGED << panelMount, premiumUser, panelToken, ssoConfig, isSSoConfigLoaded,
                  isAddSSOModalVisible, formFields, localStorage, formTimers >>
  /\ OnlyPanel

\* the end of handleShowAddSSOModal: the form is filled from the config in
\* hand 200 ms later, and the modal is shown
FillLater(ts, o, current) ==
  IF current.null THEN ts
  ELSE Append(ts, [ mount |-> o.mount, formData |-> buildFormDataFromConfig(current) ])

\* handleShowAddSSOModal: a user who is not premium is told so and nothing
\* else happens; otherwise the form is reset and the config is fetched again
\* (or, with no token, taken from the state or the storage)
ShowAddSSOModal ==
  /\ panelMount > 0
  /\ IF NotPremium(premiumUser)
     THEN /\ notices' = notices \cup {"premium only: SSO"}
          /\ UNCHANGED << formFields, apiCalls, panelOps, formTimers,
                          isAddSSOModalVisible >>
     ELSE /\ HandlerCalls < MaxPanelOps
          /\ UNCHANGED notices
          /\ formFields' = EmptyForm
          /\ IF panelToken # Null
             THEN /\ apiCalls' = Append(apiCalls,
                         ApiCall("getSSOProviderConfig", NoArg, Len(panelOps) + 1))
                  /\ panelOps' = Append(panelOps,
                         PanelOp("handleShowAddSSOModal", panelMount, "read", ssoConfig))
                  /\ UNCHANGED << formTimers, isAddSSOModalVisible >>
             ELSE LET o == PanelOp("handleShowAddSSOModal", panelMount, "done", ssoConfig)
                      current == IF ~ssoConfig.null THEN ssoConfig
                                 ELSE ParsedItem(localStorage)
                  IN  /\ panelOps' = Append(panelOps, o)
                      /\ formTimers' = FillLater(formTimers, o, current)
                      /\ isAddSSOModalVisible' = TRUE
                      /\ UNCHANGED apiCalls
  /\ UNCHANGED << panelMount, premiumUser, panelToken, ssoConfig, isSSoConfigLoaded,
                  allowedIPs, isAllowedIPModalVisible, localStorage, lastChange >>
  /\ OnlyPanel

\* getSSOProviderConfig of handleShowAddSSOModal is answered: a fresh config
\* is stored in the state and in the storage; otherwise the config of the
\* state is used, or on failure the stored one when the state has none
ShowAddSSOSettle(id, resp) ==
  /\ Awaits(id, "handleShowAddSSOModal", "read", resp)
  /\ LET o == OpOf(id)
         got == resp.ok /\ ~resp.config.null
         current == IF got THEN resp.config
                    ELSE IF resp.ok \/ ~o.held.null THEN o.held
                    ELSE ParsedItem(localStorage)
     IN  /\ ssoConfig' = IF got THEN SetPanelState(o, ssoConfig, resp.config) ELSE ssoConfig
         /\ localStorage' = IF got THEN Stored(resp.config) ELSE localStorage
         /\ formTimers' = FillLater(formTimers, o, current)
         /\ isAddSSOModalVisible' = SetPanelState(o, isAddSSOModalVisible, TRUE)
  /\ apiCalls' = Answered(apiCalls, id, resp)
  /\ lastChange' = ChangeAfter(lastChange, apiCalls[id].api, resp)
  /\ panelOps' = [panelOps EXCEPT ![apiCalls[id].op].pc = "done"]
  /\ UNCHANGED << panelMount, premiumUser, panelToken, isSSoConfigLoaded, allowedIPs,
                  isAllowedIPModalVisible, formFields, notices >>
  /\ OnlyPanel

\* the timer of handleShowAddSSOModal fires: form.setFieldsValue(formData)
FormTimerFire ==
  /\ formTimers # << >>
  /\ formFields' = IF Head(formTimers).mount = panelMount
                   THEN setFieldsValue(formFields, Head(formTimers).formData)
                   ELSE formFields
  /\ formTimers' = Tail(formTimers)
  /\ UNCHANGED << panelMount, premiumUser, panelToken, ssoConfig, isSSoConfigLoaded,
                  allowedIPs, isAllowedIPModalVisible, isAddSSOModalVisible,
                  localStorage, notices, apiCalls, lastChange, panelOps >>
  /\ OnlyPanel

\* handleSSOUpdate(formValues): with an access token, the config is built
\* from the form values and sent with updateSSOProviderConfig
SSOUpdate(formValues) ==
  /\ panelMount > 0
  /\ panelToken # Null
  /\ HandlerCalls < MaxPanelOps
  /\ apiCalls' = Append(apiCalls,
         ApiCall("updateSSOProviderConfig", SSOUpdateConfig(formValues),
                 Len(panelOps) + 1))
  /\ panelOps' = Append(panelOps,
         PanelOp("handleSSOUpdate", panelMount, "update", NullConfig))
  /\ UNCHANGED << panelMount, premiumUser, panelToken, ssoConfig, isSSoConfigLoaded,
                  allowedIPs, isAllowedIPModalVisible, isAddSSOModalVisible, formFields,
                  localStorage, notices, lastChange, formTimers >>
  /\ OnlyPanel

\* updateSSOProviderConfig is answered: on success the config is read again
SSOUpdateSettle(id, resp) ==
  /\ Awaits(id, "handleSSOUpdate", "update", resp)
  /\ IF resp.ok /\ resp.success
     THEN /\ notices' = notices \cup {"updated: SSO"}
          /\ apiCalls' = Append(Answered(apiCalls, id, resp),
                 ApiCall("getSSOProviderConfig", NoArg, apiCalls[id].op))
          /\ panelOps' = [panelOps EXCEPT ![apiCalls[id].op].pc = "refresh"]
     ELSE /\ notices' = IF resp.ok THEN notices ELSE notices \cup {"failed: SSO update"}
          /\ apiCalls' = Answered(apiCalls, id, resp)
          /\ panelOps' = [panelOps EXCEPT ![apiCalls[id].op].pc = "done"]
  /\ lastChange' = ChangeAfter(lastChange, apiCalls[id].api, resp)
  /\ UNCHANGED << panelMount, premiumUser, panelToken, ssoConfig, isSSoConfigLoaded,
                  allowedIPs, isAllowedIPModalVisible, isAddSSOModalVisible, formFields,
                  localStorage, formTimers >>
  /\ OnlyPanel

\* the getSSOProviderConfig that follows a successful update is answered
SSORefreshSettle(id, resp) ==
  /\ Awaits(id, "handleSSOUpdate", "refresh", resp)
  /\ apiCalls[id].api = "getSSOProviderConfig"
  /\ LET o == OpOf(id)
         got == resp.ok /\ ~resp.config.null
     IN  /\ ssoConfig' = IF got THEN SetPanelState(o, ssoConfig, resp.config) ELSE ssoConfig
         /\ localStorage' = IF got THEN Stored(resp.config) ELSE localStorage
  /\ notices' = IF resp.ok THEN notices ELSE notices \cup {"failed: SSO update"}
  /\ apiCalls' = Answered(apiCalls, id, resp)
  /\ lastChange' = ChangeAfter(lastChange, apiCalls[id].api, resp)
  /\ panelOps' = [panelOps EXCEPT ![apiCalls[id].op].pc = "done"]
  /\ UNCHANGED << panelMount, premiumUser, panelToken, isSSoConfigLoaded, allowedIPs,
                  isAllowedIPModalVisible, isAddSSOModalVisible, formFields, formTimers >>
  /\ OnlyPanel

\* handleDeleteSSO, confirmed in its dialog: deleteSSOProviderConfig is called
DeleteSSO ==
  /\ panelMount > 0
  /\ panelToken # Null
  /\ HandlerCalls < MaxPanelOps
  /\ apiCalls' = Append(apiCalls,
         ApiCall("deleteSSOProviderConfig", NoArg, Len(panelOps) + 1))
  /\ panelOps' = Append(panelOps,
         PanelOp("handleDeleteSSO", panelMount, "delete", NullConfig))
  /\ UNCHANGED << panelMount, premiumUser, panelToken, ssoConfig, isSSoConfigLoaded,
                  allowedIPs, isAllowedIPModalVisible, isAddSSOModalVisible, formFields,
                  localStorage, notices, lastChange, formTimers >>
  /\ OnlyPanel

\* deleteSSOProviderConfig is answered: on success the config is cleared in
\* the state and in the storage, the form is reset and the modal is closed
DeleteSSOSettle(id, resp) ==
  /\ Awaits(id, "handleDeleteSSO", "delete", resp)
  /\ LET o == OpOf(id)
         done == resp.ok /\ resp.success
     IN  /\ ssoConfig' = IF done THEN SetPanelState(o, ssoConfig, NullConfig) ELSE ssoConfig
         /\ localStorage' = IF done THEN NoItem ELSE localStorage
         /\ formFields' = IF done THEN SetPanelState(o, formFields, EmptyForm)
                          ELSE formFields
         /\ isAddSSOModalVisible' =
              IF done THEN SetPanelState(o, isAddSSOModalVisible, FALSE)
              ELSE isAddSSOModalVisible
         /\ notices' = IF done THEN notices \cup {"deleted: SSO"}
                       ELSE IF resp.ok THEN notices
                       ELSE notices \cup {"failed: SSO delete"}
  /\ apiCalls' = Answered(apiCalls, id, resp)
  /\ lastChange' = ChangeAfter(lastChange, apiCalls[id].api, resp)
  /\ panelOps' = [panelOps EXCEPT ![apiCalls[id].op].pc = "done"]
  /\ UNCHANGED << panelMount, premiumUser, panelToken, isSSoConfigLoaded, allowedIPs,
                  isAllowedIPModalVisible, formTimers >>
  /\ OnlyPanel

\* the props and the storage the panel is first rendered with
InitPanel ==
  /\ InitCache /\ InitComponent({AllProps("Admin")}) /\ InitStream
  /\ InitTracker /\ InitNoFill
  /\ InitPanelState
  /\ premiumUser \in BOOLEAN
  /\ panelToken \in { Null, "sk-1" }
  /\ localStorage \in { NoItem, Garbage }

\* the panel is mounted for the first time
FirstMount == panelMount = 0 /\ PanelMount

\* SpecPanel: the panel of a premium or a non-premium user, the buttons that
\* show the allowed IPs and the SSO modal, and the backend's answers
NextPanel ==
  \/ FirstMount
  \/ ShowAllowedIPs
  \/ ShowAddSSOModal
  \/ FormTimerFire
  \/ \E id \in 1..Len(apiCalls) : \E resp \in Responses(apiCalls[id].api) :
       \/ FetchSSOConfigSettle(id, resp)
       \/ AllowedIPsSettle(id, resp)
       \/ ShowAddSSOSettle(id, resp)

SpecPanel == InitPanel /\ [][NextPanel]_vars

\* SpecFallback: the panel of a premium user with an access token and an
\* empty storage is mounted and mounted again, the SSO config is read,
\* updated and deleted, and the backend answers or fails
InitFallback ==
  /\ InitCache /\ InitComponent({AllProps("Admin")}) /\ InitStream
  /\ InitTracker /\ InitNoFill
  /\ InitPanelState
  /\ premiumUser = TRUE
  /\ panelToken = "sk-1"
  /\ localStorage = NoItem

\* the panel is mounted a second time
Remount == panelMount = 1 /\ PanelMount

\* the SSO form is submitted as it stands, once the update before it is over
SubmitForm ==
  /\ \A i \in 1..Len(panelOps) : panelOps[i].op = "handleSSOUpdate" => panelOps[i].pc = "done"
  /\ SSOUpdate(formFields)

NextFallback ==
  \/ FirstMount
  \/ Remount
  \/ SubmitForm
  \/ DeleteSSO
  \/ \E id \in 1..Len(apiCalls) : \E resp \in Responses(apiCalls[id].api) :
       \/ FetchSSOConfigSettle(id, resp)
       \/ SSOUpdateSettle(id, resp)
       \/ SSORefreshSettle(id, resp)
       \/ DeleteSSOSettle(id, resp)

SpecFallback == InitFallback /\ [][NextFallback]_vars

\* what a field of the SSO form may hold when the form is submitted: nothing,
\* blanks, the mask, a text that only contains the mask, and real values
FieldValues ==
  { Undefined, << >>, << " " >>, Mask, << " ", "*", "*", "*" >>, << "s" >>,
    << " ", "s", " " >> }

\* the values of the form after the user changed one field of it, or
\* selected a provider (one the select offers, or a name with no entry in
\* ssoProviderConfigs)
EditedForms(fields) ==
  { [fields EXCEPT ![k] = v] : k \in ProviderKeys, v \in FieldValues }
    \cup { [fields EXCEPT !["sso_provider"] = Provider(name)] :
             name \in { "google", "microsoft", "okta", "generic", "other" } }

\* the SSO modal is opened, once
OpenModal ==
  /\ \A i \in 1..Len(panelOps) : panelOps[i].op # "handleShowAddSSOModal"
  /\ ShowAddSSOModal

\* the SSO form is submitted, once, after one field was changed
SubmitEdited ==
  /\ \A i \in 1..Len(panelOps) : panelOps[i].op # "handleSSOUpdate"
  /\ \E formValues \in EditedForms(formFields) : SSOUpdate(formValues)

\* SpecForm: a premium user with an access token opens the SSO modal, the
\* form is filled from the config, and the user changes a field and submits
NextForm ==
  \/ FirstMount
  \/ OpenModal
  \/ FormTimerFire
  \/ SubmitEdited
  \/ \E id \in 1..Len(apiCalls) : \E resp \in Responses(apiCalls[id].api) :
       \/ FetchSSOConfigSettle(id, resp)
       \/ ShowAddSSOSettle(id, resp)
       \/ SSOUpdateSettle(id, resp)
       \/ SSORefreshSettle(id, resp)

SpecForm == InitFallback /\ [][NextForm]_vars

\* the loading progress indicator: Object.keys(componentLoading).length
totalComponents == Cardinality(DOMAIN componentLoading)

\* Object.values(componentLoading).filter(loading => !loading).length
loadedComponents == Cardinality({ w \in DOMAIN componentLoading : ~componentLoading[w] })

\* the indicator is rendered until isFullyLoaded
isFullyLoaded == loadedComponents = totalComponents

----
(***************************************************************************)
(* The claims.                                                             *)
(***************************************************************************)
\* C1: a deduplicatedRequest call that finds an entry for its key in the cache
\* returns that entry, which is the key's pending promise, and does not invoke
\* request(); request() is invoked only by a call that found no entry.
C1_HitReturnsCachedPromise ==
  \A c \in 1..Len(calls) :
    /\ calls[c].cachedAt # NoPromise =>
         /\ calls[c].promise = calls[c].cachedAt
         /\ calls[c].promise \in calls[c].pendingAt
         /\ ~calls[c].invoked
    /\ calls[c].invoked => calls[c].cachedAt = NoPromise

\* a call found an entry in the cache, and another call found none
C1_Witness ==
  /\ \E c \in 1..Len(calls) : calls[c].cachedAt # NoPromise /\ ~calls[c].invoked
  /\ \E c \in 1..Len(calls) : calls[c].cachedAt = NoPromise /\ calls[c].invoked

\* C2: in every reachable state at most one request issued through
\* deduplicatedRequest is unsettled for each cache key.
C2_OnePendingPerKey ==
  \A k \in DedupKeys : Cardinality(PendingFor(promises, k)) <= 1

\* a key has an unsettled request, was called again meanwhile, and an earlier
\* request of the same key has settled
C2_Witness ==
  \E k \in DedupKeys :
    /\ PendingFor(promises, k) # {}
    /\ \E c \in 1..Len(calls) : calls[c].key = k /\ ~calls[c].invoked
    /\ \E i \in 1..Len(promises) : promises[i].key = k /\ promises[i].state # "pending"

\* C3: the cache holds an entry for a key exactly while a request of that key
\* is unsettled, and the entry is that request's promise; a call made while no
\* request of its key is unsettled (the first one, or the first after a
\* settlement by success or by failure) invokes request() again.
C3_EntryIffPending ==
  /\ \A k \in DedupKeys :
       /\ requestCache[k] # NoPromise <=> PendingFor(promises, k) # {}
       /\ requestCache[k] # NoPromise => requestCache[k] \in PendingFor(promises, k)
  /\ \A c \in 1..Len(calls) : calls[c].pendingAt = {} => calls[c].invoked

\* request() was invoked again after a request of the same key was rejected,
\* and again after one was fulfilled
C3_Witness ==
  \A st \in {"fulfilled", "rejected"} :
    \E c \in 1..Len(calls) :
      /\ calls[c].invoked
      /\ \E i \in 1..(calls[c].promise - 1) :
           promises[i].key = calls[c].key /\ promises[i].state = st

\* C4: a caller that passes a key while a request that an earlier caller
\* awaits for that key is pending awaits the same promise, so both observe
\* the same fulfilment value or the same rejection, and the later caller
\* invokes no second request.
C4_SharedOutcome ==
  \A c1, c2 \in 1..Len(calls) :
    (c1 < c2 /\ calls[c1].key = calls[c2].key
       /\ calls[c1].promise \in calls[c2].pendingAt) =>
      /\ calls[c2].promise = calls[c1].promise
      /\ Outcome(calls[c2].promise) = Outcome(calls[c1].promise)
      /\ ~calls[c2].invoked

\* two callers shared a request that was fulfilled, and two shared one that
\* was rejected
C4_Witness ==
  \A st \in {"fulfilled", "rejected"} :
    \E c1, c2 \in 1..Len(calls) :
      /\ c1 < c2
      /\ calls[c1].promise \in calls[c2].pendingAt
      /\ promises[calls[c1].promise].state = st

\* the EventSources that are not closed
OpenConns == { c \in 1..Len(conns) : conns[c].state # "closed" }

\* C5: after the unmount cleanup has run, no stream connection is open or
\* being opened: the held connection was closed, and neither a reconnect
\* timer left by an earlier error nor anything else opens one afterwards.
C5_NoConnectionAfterTeardown == ~mounted => OpenConns = {}

\* a step in which connectToSpendStream is called: a reconnect timer fires,
\* or initlizeUsageData reaches its end with the guard not set
ConnectCalled ==
  \/ timers # << >> /\ timers' = Tail(timers)
  \/ \E r \in 1..Len(runs) : runs[r].pc = "settings" /\ runs'[r].pc = "launched"

\* C6: in every reachable state at most one EventSource is not closed, and it
\* is the one eventSourceRef holds; a connectToSpendStream call made while a
\* connection is held (by a run of the effect or by a reconnect timer)
\* constructs no EventSource and changes no state of the stream.
C6_SingleConnection ==
  /\ [](Cardinality(OpenConns) <= 1 /\ OpenConns \subseteq {eventSourceRef})
  /\ [][ (ConnectCalled /\ eventSourceRef # 0) =>
           /\ eventSourceRef' = eventSourceRef
           /\ Len(conns') = Len(conns)
           /\ \A c \in 1..Len(conns) : conns'[c].state = conns[c].state
           /\ isStreamConnected' = isStreamConnected ]_vars

\* a reconnect timer fired while a connection was held, a later run of the
\* effect having connected meanwhile, and the held connection is open
C6_Witness ==
  /\ \E c \in 1..Len(conns) : conns[c].retry = "noop"
  /\ eventSourceRef # 0
  /\ conns[eventSourceRef].state = "open"
  /\ Len(conns) >= 2

\* EventSource c was closed by its onerror handler
Errored(c) == c \in 1..Len(conns) /\ conns[c].closedBy = "error"

\* the reconnect timer of EventSource c has fired and called connectToSpendStream
Attempted(c) == c \in 1..Len(conns) /\ conns[c].retry # "none"

\* the ids an EventSource can have: one per run of the effect and per error
ConnIds == 1..(MaxRuns + MaxErrors)

\* C7: every stream error closes the connection, clears eventSourceRef, sets
\* isStreamConnected to false (while mounted) and sets a timer of 5000 ms;
\* when the timer fires connectToSpendStream is called, which opens a new
\* connection unless one is held; this holds for every error, however many
\* came before, and every error is eventually followed by that attempt.
C7_ErrorSchedulesReconnect ==
  /\ [](\A c \in 1..Len(conns) : Errored(c) =>
          /\ conns[c].state = "closed"
          /\ \/ Attempted(c)
             \/ \E i \in 1..Len(timers) :
                  timers[i] = [ conn |-> c, delay |-> ReconnectDelay ])
  /\ [][ \A c \in 1..Len(conns) : (~Errored(c) /\ Errored(c)') =>
           /\ conns'[c].state = "closed"
           /\ eventSourceRef' = 0
           /\ mounted => ~isStreamConnected'
           /\ timers' = Append(timers, [ conn |-> c, delay |-> ReconnectDelay ]) ]_vars
  /\ [][ (timers # << >> /\ timers' = Tail(timers)) =>
           /\ conns'[Head(timers).conn].retry # "none"
           /\ eventSourceRef = 0 =>
                /\ Len(conns') = Len(conns) + 1
                /\ eventSourceRef' = Len(conns')
                /\ conns'[Len(conns')].state = "connecting" ]_vars
  /\ \A c \in ConnIds : Errored(c) ~> Attempted(c)

\* while mounted, two successive connections failed and each was followed by
\* a reconnect that opened a new connection
C7_Witness ==
  /\ mounted
  /\ \E c1, c2 \in 1..Len(conns) :
       /\ c1 < c2
       /\ Errored(c1) /\ conns[c1].retry = "reconnected"
       /\ Errored(c2) /\ conns[c2].retry = "reconnected"

\* the metric requests (all but the settings request) invoked by an operation
IssuedBy(by) ==
  { i \in 1..Len(promises) : promises[i].by = by /\ promises[i].key # SettingsKey }

\* the continuations an operation registered on metric requests
AwaitedBy(by) == { i \in 1..Len(waiters) : waiters[i].by = by }

\* C8: a run of initlizeUsageData or of updateTagSpendData whose settings
\* request returned the guard flag set issues no metric request and awaits
\* none; while no run has retrieved settings without the flag (or failed to
\* retrieve them) no metric request exists at all; and once initlizeUsageData
\* has stored settings with the flag set, and none without, the view renders
\* the limit notice alone.
C8_GuardStopsFetches ==
  /\ \A r \in 1..Len(runs) : runs[r].result = "guard" =>
       /\ IssuedBy(By("initlizeUsageData", r)) = {}
       /\ AwaitedBy(By("initlizeUsageData", r)) = {}
  /\ \A t \in 1..Len(tagRuns) : tagRuns[t].result = "guard" =>
       /\ IssuedBy(By("updateTagSpendData", t)) = {}
       /\ AwaitedBy(By("updateTagSpendData", t)) = {}
  /\ ( /\ \A r \in 1..Len(runs) : runs[r].result \in {"none", "guard"}
       /\ \A t \in 1..Len(tagRuns) : tagRuns[t].result \in {"none", "guard"} )
       => \A i \in 1..Len(promises) : promises[i].key = SettingsKey
  /\ ( /\ \E r \in 1..Len(runs) : runs[r].result = "guard"
       /\ \A r \in 1..Len(runs) : runs[r].result # "noguard" )
       => View = "limitNotice"

\* the mount fan-out and the tag-spend effect both retrieved settings with
\* the guard set
C8_Witness ==
  /\ \E r \in 1..Len(runs) : runs[r].result = "guard"
  /\ \E t \in 1..Len(tagRuns) : tagRuns[t].result = "guard"
  /\ View = "limitNotice"

\* C9: no team, tag or customer breakdown fetch is launched, by the fan-out
\* or by updateTagSpendData, unless the user's role is Admin or Admin Viewer.
C9_AdminFetchesOnlyForAdmins ==
  \A i \in 1..Len(waiters) :
    FetchOf(waiters[i].fetch).admin => isAdminOrAdminViewer(props.userRole)

\* C10: every fetch launched by the fan-out whose request has settled has
\* marked its own widget loaded; after a success its state hooks hold the
\* response, after a failure the error is logged and the hooks keep their
\* initial value.
C10_SettledFetchMarksLoaded ==
  \A i \in 1..Len(waiters) :
    LET w == waiters[i]
        f == FetchOf(w.fetch)
    IN  (w.by.op = "initlizeUsageData" /\ w.ran) =>
          /\ \A x \in f.widget : ~componentLoading[x]
          /\ promises[w.promise].state = "fulfilled" =>
               \A x \in f.sets : data[x] = w.promise
          /\ promises[w.promise].state = "rejected" =>
               /\ f.name \in errorLog
               /\ \A x \in f.sets : data[x] = 0

\* the fan-out was launched and every request it launched has settled, its
\* continuations included: from here on nothing writes componentLoading
FanOutSettled ==
  /\ \E r \in 1..Len(runs) : runs[r].pc \in {"launched", "threw"}
  /\ \A i \in 1..Len(waiters) : waiters[i].ran
  /\ \A i \in 1..Len(promises) : promises[i].state # "pending"

\* C11: with the guard not set, once every fetch the fan-out launched has
\* settled (by success or by failure) every flag of componentLoading is
\* loaded: loadedComponents = totalComponents and the progress indicator is
\* gone.
C11_NoWidgetLoadsForever ==
  FanOutSettled => isFullyLoaded /\ \A w \in Widgets : ~componentLoading[w]

\* the continuations that ran in this step and mark flag w
MarkedNow(w) ==
  { i \in 1..Len(waiters) :
      ~waiters[i].ran /\ waiters'[i].ran /\ w \in FetchOf(waiters[i].fetch).marks }

\* C12: a flag of componentLoading changes only from loading to loaded, and
\* only in the step in which a fetch that marks it got its data or failed;
\* once loaded it is never set back to loading, whatever runs afterwards
\* (re-runs of the effect and late answers included).
C12_LoadingOnlyClears ==
  /\ [](\A w \in Widgets : ~componentLoading[w] =>
          \E i \in 1..Len(waiters) :
            waiters[i].ran /\ w \in FetchOf(waiters[i].fetch).marks)
  /\ [][ \A w \in Widgets :
           /\ ~componentLoading[w] => ~componentLoading'[w]
           /\ (componentLoading[w] /\ ~componentLoading'[w]) => MarkedNow(w) # {} ]_vars

\* a flag was marked by the fetch of the mount run and marked again by the
\* same fetch of the re-run, one on success and one on failure
C12_Witness ==
  \E i, j \in 1..Len(waiters) :
    /\ waiters[i].by.run = 1 /\ waiters[j].by.run = 2
    /\ waiters[i].fetch = waiters[j].fetch
    /\ waiters[i].ran /\ waiters[j].ran
    /\ promises[waiters[i].promise].state # promises[waiters[j].promise].state
    /\ FetchOf(waiters[i].fetch).marks # {}
    /\ \A w \in FetchOf(waiters[i].fetch).marks : ~componentLoading[w]

\* the names in the queue of updaters
PendingNames == { pendingMarks[i] : i \in 1..Len(pendingMarks) }

\* C13: markComponentLoaded is idempotent and commutative and writes the
\* named flag only; no mark is lost, whatever the order of the calls and
\* however many are queued for one render; once every name has been marked
\* and the marks are rendered, every flag is loaded and
\* loadedComponents = totalComponents.
C13_MarksCommute ==
  /\ \A a, b \in Widgets :
       LET L == componentLoading
       IN  /\ markComponentLoaded(markComponentLoaded(L, a), a) = markComponentLoaded(L, a)
           /\ markComponentLoaded(markComponentLoaded(L, a), b)
                = markComponentLoaded(markComponentLoaded(L, b), a)
           /\ DOMAIN markComponentLoaded(L, a) = DOMAIN L
           /\ ~markComponentLoaded(L, a)[a]
           /\ a # b => markComponentLoaded(L, a)[b] = L[b]
  /\ \A w \in Widgets :
       /\ w \notin marked => componentLoading[w]
       /\ (w \in marked /\ w \notin PendingNames) => ~componentLoading[w]
  /\ (marked = Widgets /\ pendingMarks = << >>) => isFullyLoaded

\* every name has been marked and rendered
C13_Witness ==
  /\ marked = Widgets
  /\ pendingMarks = << >>
  /\ loadedComponents = Len(WidgetList)

\* C14: every run of initlizeUsageData that launched the fan-out (credentials
\* present, guard not set) went on to call connectToSpendStream, whatever the
\* role of the user.
C14_ConnectFollowsLaunch ==
  \A r \in 1..Len(runs) :
    IssuedBy(By("initlizeUsageData", r)) # {} => runs[r].pc = "launched"

\* C15: a message whose envelope has type "update" and a number in
\* data.total_spend makes totalMonthlySpend that number, 0 included; any
\* other message leaves totalMonthlySpend as it was; no message changes the
\* connection or isStreamConnected, and none raises an error.
C15_MessageSetsSpend ==
  [][ \A c \in 1..Len(conns), msg \in Messages :
        OnMessage(c, msg) =>
          /\ totalMonthlySpend' =
               IF msg.parses /\ msg.type = "update" /\ msg.hasData /\ msg.hasSpend
               THEN msg.total_spend ELSE totalMonthlySpend
          /\ conns' = conns
          /\ eventSourceRef' = eventSourceRef
          /\ isStreamConnected' = isStreamConnected
          /\ unhandled' = unhandled ]_vars

\* C16: the output of fillMissingDates has one entry per calendar day of
\* [start_date, end_date]: its length is days_between(start, end) + 1,
\* whatever the rows and the time zone.
C16_FillLength ==
  fillArgs.called => Len(filledData) = fillArgs.endDay - fillArgs.startDay + 1

\* the entries of the output labelled with day d
EntriesOf(d) == { i \in 1..Len(filledData) : filledData[i].date = IsoStr(d) }

\* the rows of the input whose date, in either form, is day d
RowsOf(d) == { i \in 1..Len(fillArgs.data) : fillArgs.data[i].date.day = d }

\* the days of [start_date, end_date]
Interval == fillArgs.startDay .. fillArgs.endDay

\* C17: the output has exactly one entry for every calendar day of
\* [start_date, end_date], labelled with that day's date, and the entry of a
\* day absent from rows holds 0 for api_requests, total_tokens and every
\* category.
C17_OneEntryPerDay ==
  fillArgs.called =>
    \A d \in Interval :
      /\ Cardinality(EntriesOf(d)) = 1
      /\ RowsOf(d) = {} =>
           \A i \in EntriesOf(d) :
             filledData[i] = emptyEntry(IsoStr(d), fillArgs.categories)

\* C18: for every day of [start_date, end_date] that has a row, written as
\* YYYY-MM-DD or as "Mon DD", the output entry of that day is that row with
\* its date in ISO form and every other field unchanged, in every time zone.
C18_RowsKept ==
  fillArgs.called =>
    \A d \in Interval : \A r \in RowsOf(d) :
      \E i \in EntriesOf(d) :
        filledData[i] = [ fillArgs.data[r] EXCEPT !.date = IsoStr(d) ]

\* the rows of the input whose date lies in [start_date, end_date]
InsideRows(rows) == SelectSeq(rows, LAMBDA row : row.date.day \in Interval)

\* C19: a row dated outside [start_date, end_date] never appears in the
\* output and changes no entry of it: the output is the one the rows inside
\* the interval give on their own.
C19_OutsideRowsDropped ==
  fillArgs.called =>
    filledData = fillMissingDates(InsideRows(fillArgs.data),
                                  LocalMidnight(fillArgs.startDay, fillArgs.zone),
                                  LocalMidnight(fillArgs.endDay, fillArgs.zone),
                                  fillArgs.categories, fillArgs.zone)

\* C20: the dates of the output are strictly ascending, whatever the order
\* of the rows.
C20_StrictlyAscending ==
  fillArgs.called =>
    \A i \in 1..(Len(filledData) - 1) :
      filledData[i].date.day < filledData[i + 1].date.day

\* the input holds exactly one row for every day of [start_date, end_date]
\* and no other row
Dense ==
  /\ Len(fillArgs.data) = fillArgs.endDay - fillArgs.startDay + 1
  /\ \A d \in Interval : Cardinality(RowsOf(d)) = 1

\* C21: when rows holds exactly one row for every calendar day of
\* [start_date, end_date], the output is those rows in the order of their
\* days, unchanged apart from their date being in ISO form (and so filling
\* the output again gives the same sequence).
C21_DenseIsIdentity ==
  (fillArgs.called /\ Dense) =>
    /\ Len(filledData) = Len(fillArgs.data)
    /\ \A k \in 1..Len(filledData) :
         \E r \in RowsOf(fillArgs.startDay + k - 1) :
           filledData[k] =
             [ fillArgs.data[r] EXCEPT !.date = IsoStr(fillArgs.startDay + k - 1) ]

\* C22: no failure of a dashboard fetch (fan-out, tag-spend update, end-user
\* update) leaves its own operation: no rejection goes unhandled and nothing
\* is thrown out of the orchestrator.
C22_FailuresStayLocal == unhandled = {}

\* the cache entries of the keys other than key are left as they were
OtherKeysKept(key) ==
  \A k \in DedupKeys \ {key} : requestCache'[k] = requestCache[k]

\* C23: a call of deduplicatedRequest with key k invokes its factory whenever
\* the cache has no entry for k, however many other keys are pending, and
\* neither the call nor the finally callback of k's request adds, replaces or
\* removes the entry of another key.
C23_KeysIndependent ==
  [][ /\ \A key \in CallKeys :
           Call(key) =>
             /\ requestCache[key] = NoPromise =>
                  /\ calls'[Len(calls')].invoked
                  /\ requestCache'[key] = Len(promises')
                  /\ promises'[Len(promises')].key = key
             /\ OtherKeysKept(key)
      /\ \A id \in 1..Len(promises) :
           (promises[id].state = "pending" /\ promises'[id].state # "pending")
             => OtherKeysKept(promises[id].key) ]_vars

\* a call invoked its factory while the request of another key was pending,
\* and both requests are still pending
C23_Witness ==
  \E c1, c2 \in 1..Len(calls) :
    /\ c1 < c2
    /\ calls[c1].key # calls[c2].key
    /\ calls[c1].invoked /\ calls[c2].invoked
    /\ promises[calls[c1].promise].state = "pending"
    /\ promises[calls[c2].promise].state = "pending"
    /\ requestCache[calls[c1].key] = calls[c1].promise
    /\ requestCache[calls[c2].key] = calls[c2].promise

\* the calls made by the handlers behind the premium gate
GatedCalls ==
  { i \in 1..Len(apiCalls) :
      panelOps[apiCalls[i].op].op \in {"handleShowAllowedIPs", "handleShowAddSSOModal"} }

\* C24: when a user who is not premium asks for the allowed IPs or for the SSO
\* modal, the handler shows a notice and stops: it issues no backend call,
\* opens no modal, and leaves the allowed-IP list, the SSO config and the
\* stored fallback as they were.
C24_GateAborts ==
  /\ [](~(premiumUser = TRUE) =>
         /\ GatedCalls = {}
         /\ ~isAllowedIPModalVisible /\ ~isAddSSOModalVisible
         /\ allowedIPs = << >>
         /\ formTimers = << >>)
  /\ [][ (~(premiumUser = TRUE) /\ (ShowAllowedIPs \/ ShowAddSSOModal)) =>
           /\ notices' # notices
           /\ apiCalls' = apiCalls
           /\ allowedIPs' = allowedIPs
           /\ ssoConfig' = ssoConfig
           /\ localStorage' = localStorage
           /\ isAllowedIPModalVisible' = isAllowedIPModalVisible
           /\ isAddSSOModalVisible' = isAddSSOModalVisible ]_vars

\* a user who is not premium, with an SSO config on screen and stored, has
\* pressed both buttons and has seen both notices
C24_Witness ==
  /\ ~(premiumUser = TRUE)
  /\ ~ssoConfig.null
  /\ localStorage = Stored(ssoConfig)
  /\ notices = {"premium only: allowed IPs", "premium only: SSO"}

\* C25: when a read of the SSO config succeeded with config c and no read,
\* update or delete has succeeded since, a failure of the read made on mount
\* leaves the panel with c, restored from the storage; and the storage is
\* written only with the config of a successful backend response.
C25_FallbackRoundTrip ==
  [][ /\ \A id \in 1..Len(apiCalls) :
           (/\ FetchSSOConfigSettle(id, Failure)
            /\ OpOf(id).mount = panelMount
            /\ lastChange.api = "getSSOProviderConfig")
           => /\ ssoConfig' = lastChange.config
              /\ localStorage' = Stored(lastChange.config)
      /\ (localStorage'.present /\ localStorage' # localStorage)
           => \E id \in 1..Len(apiCalls) : \E c \in Configs :
                /\ apiCalls[id].api = "getSSOProviderConfig"
                /\ apiCalls[id].state = "pending" /\ apiCalls'[id].state = "ok"
                /\ lastChange' = [ api |-> "getSSOProviderConfig", config |-> c ]
                /\ localStorage' = Stored(c) ]_vars

\* the panel was mounted, read a config, was mounted again, and the read of
\* the second mount failed: the config on screen is the stored one
C25_Witness ==
  /\ panelMount = 2
  /\ \E id \in 1..Len(apiCalls) :
       /\ panelOps[apiCalls[id].op].op = "fetchSSOConfig"
       /\ panelOps[apiCalls[id].op].mount = 1
       /\ apiCalls[id].state = "ok"
  /\ \E id \in 1..Len(apiCalls) :
       /\ panelOps[apiCalls[id].op].op = "fetchSSOConfig"
       /\ panelOps[apiCalls[id].op].mount = 2
       /\ apiCalls[id].state = "failed"
  /\ lastChange.api = "getSSOProviderConfig"
  /\ ssoConfig = lastChange.config
  /\ localStorage = Stored(ssoConfig)

\* the continuations still waiting for their request
Waiting == { i \in 1..Len(waiters) : ~waiters[i].ran }

\* C26: no two operations in flight write the same state hook: the fetches
\* of the fan-out, the tag-spend update and the end-user update that wait for
\* an answer at the same time set pairwise disjoint state.
C26_DisjointWrites ==
  \A i, j \in Waiting :
    FetchOf(waiters[i].fetch).name # FetchOf(waiters[j].fetch).name =>
      FetchOf(waiters[i].fetch).sets \cap FetchOf(waiters[j].fetch).sets = {}

\* the requests of the two update operations
UpdateRequests ==
  { id \in 1..Len(promises) :
      /\ promises[id].key # SettingsKey
      /\ promises[id].by.op \in {"updateEndUserData", "updateTagSpendData"} }

\* the state hook an update request writes
HookOf(id) == IF promises[id].by.op = "updateEndUserData" THEN "topUsers" ELSE "topTagsData"

\* C27: re-invoking an update while an earlier invocation is in flight does
\* not cancel the earlier one: its request stays pending and its continuation
\* stays registered, and whenever its answer arrives, before or after the
\* answer of a newer request, the state is set to it.
C27_LateAnswerOverwrites ==
  [][ /\ \A id \in UpdateRequests :
           (promises[id].state = "pending" /\ promises'[id].state = "fulfilled")
             => data'[HookOf(id)] = id
      /\ Len(promises') > Len(promises) =>
           /\ \A id \in UpdateRequests : promises'[id] = promises[id]
           /\ \A i \in 1..Len(waiters) : waiters'[i] = waiters[i] ]_vars

\* the data on screen belongs to the older of two answered requests of the
\* same update
C27_Witness ==
  \E old, new \in UpdateRequests :
    /\ old < new
    /\ promises[old].by.op = promises[new].by.op
    /\ promises[old].state = "fulfilled"
    /\ promises[new].state = "fulfilled"
    /\ data[HookOf(old)] = old

\* the fixed keys of the deduplicated requests whose call takes the date range
DateKeys ==
  { AdminFetches[i].key : i \in { j \in 1..Len(AdminFetches) :
      ReadsDateValue(AdminFetches[j]) /\ AdminFetches[j].dedup } }

\* the date range the request behind promise id was computed for: the
\* dateValue of the render whose effect issued it
RangeOf(id) == runs[promises[id].by.run].dateValue

\* C28: the key of a deduplicated request does not include the date range:
\* when a run of the effect calls a date-dependent fetch (team spend, team
\* and tag metrics) while a request of its key is pending, whatever range
\* that request was issued for, no new request is issued and the fetch awaits
\* the pending one; when the answer arrives it is stored for every fetch
\* awaiting it.
C28_RangeNotInKey ==
  [][ /\ \A r \in 1..Len(runs) :
           (runs[r].pc = "settings" /\ runs'[r].pc # "settings") =>
             \A k \in DateKeys : \A id \in PendingFor(promises, k) :
               /\ PendingFor(promises', k) = {id}
               /\ \E i \in (Len(waiters) + 1)..Len(waiters') :
                    /\ waiters'[i].promise = id
                    /\ waiters'[i].by = By("initlizeUsageData", r)
                    /\ FetchOf(waiters'[i].fetch).key = k
      /\ \A id \in 1..Len(promises) :
           ( /\ promises[id].key \in DateKeys
             /\ promises[id].state = "pending"
             /\ promises'[id].state = "fulfilled" ) =>
             \A i \in 1..Len(waiters) :
               waiters[i].promise = id =>
                 /\ waiters'[i].ran
                 /\ \A x \in FetchOf(waiters[i].fetch).sets : data'[x] = id ]_vars

\* a run of the effect made with another date range than the first has
\* stored the answer of the request the first run issued
C28_Witness ==
  \E i \in 1..Len(waiters) :
    LET id == waiters[i].promise
    IN  /\ waiters[i].ran
        /\ promises[id].key \in DateKeys
        /\ promises[id].state = "fulfilled"
        /\ promises[id].by.run = 1
        /\ waiters[i].by.run = 2
        /\ runs[1].dateValue # runs[2].dateValue
        /\ RangeOf(id) = runs[1].dateValue
        /\ \A x \in FetchOf(waiters[i].fetch).sets : data[x] = id

\* the settings request failed or returned nothing
NoSettingsFor(run) == run.result \in {"nothing", "failed"}

\* C29: the guard fails open: a run of initlizeUsageData or of
\* updateTagSpendData whose settings request failed or returned nothing goes
\* on as one that retrieved settings without the flag and launches its metric
\* fetches; a run stops at the guard only when its settings request returned
\* the flag set.
C29_GuardFailsOpen ==
  /\ \A r \in 1..Len(runs) :
       /\ NoSettingsFor(runs[r]) =>
            /\ runs[r].pc \in {"launched", "threw"}
            /\ AwaitedBy(By("initlizeUsageData", r)) # {}
       /\ runs[r].pc = "guarded" <=> runs[r].result = "guard"
  /\ \A t \in 1..Len(tagRuns) :
       /\ NoSettingsFor(tagRuns[t]) =>
            /\ tagRuns[t].pc = "fetching"
            /\ AwaitedBy(By("updateTagSpendData", t)) # {}
       /\ tagRuns[t].pc = "guarded" <=> tagRuns[t].result = "guard"

\* the settings request of the fan-out failed, that of the tag-spend update
\* returned nothing, and both went on to their metric fetches
C29_Witness ==
  /\ \E r \in 1..Len(runs) :
       runs[r].result = "failed" /\ AwaitedBy(By("initlizeUsageData", r)) # {}
  /\ \E t \in 1..Len(tagRuns) :
       tagRuns[t].result = "nothing" /\ AwaitedBy(By("updateTagSpendData", t)) # {}

\* a form value that is undefined, empty or white space only
Blank(value) == value = Undefined \/ \A i \in 1..Len(value) : value[i] = " "

\* C30: handleSSOUpdate never sends a masked or empty provider field: when
\* it is called with form values, a provider-specific field whose form value
\* is undefined, blank or the mask is absent from the config passed to
\* updateSSOProviderConfig, and every provider-specific field of that config
\* has the value of the form, which is neither blank nor the mask.
C30_NoMaskedOrEmptyField ==
  [][ \A formValues \in EditedForms(formFields) :
        SSOUpdate(formValues) =>
          LET config == apiCalls'[Len(apiCalls')].arg
          IN  \A k \in ProviderKeys :
                /\ (Blank(formValues[k]) \/ formValues[k] = Mask) => k \notin DOMAIN config
                /\ k \in DOMAIN config =>
                     /\ config[k] = formValues[k]
                     /\ ~Blank(formValues[k])
                     /\ formValues[k] # Mask ]_vars

\* the form was filled from the Google config, whose secret is masked, and
\* submitted: the client id was sent and the secret was not
C30_Witness ==
  /\ formFields["google_client_secret"] = Mask
  /\ \E i \in 1..Len(apiCalls) :
       /\ apiCalls[i].api = "updateSSOProviderConfig"
       /\ apiCalls[i].arg["sso_provider"] = Provider("google")
       /\ "google_client_id" \in DOMAIN apiCalls[i].arg
       /\ "google_client_secret" \notin DOMAIN apiCalls[i].arg

====
